---- MODULE Spec2Model ----
(***************************************************************************)
(* Job-search pipeline of guidepost: executeJobSearch (orchestrator),      *)
(* searchJobs / normalizeJob (search client), scoreJobMatch /              *)
(* scoreBatchSingle / scoreJobBatch (match scorer) and the job_listings    *)
(* table with its unique url index.                                        *)
(*                                                                         *)
(* Strings are sequences of tokens (characters for company names, words    *)
(* for reasonings and queries).  A JavaScript number is a record           *)
(* [nan, v]; fractional upstream scores are carried in tenths.             *)
(***************************************************************************)
EXTENDS Integers, Sequences, FiniteSets, TLC

\* ------------------------------------------------------------------------
\* Program constants
\* ------------------------------------------------------------------------
BATCH_SIZE == 5

FALLBACK_SCORE == 50

\* ------------------------------------------------------------------------
\* Bounds of the model
\* ------------------------------------------------------------------------
\* longest candidate list handed to scoreJobBatch in the scorer-only runs
MaxJobs == 7

\* ------------------------------------------------------------------------
\* JavaScript values
\* ------------------------------------------------------------------------
\* undefined and null
Undef == "undef"

Null == "null"

Num(n) == [nan |-> FALSE, v |-> n]

NaN == [nan |-> TRUE, v |-> 0]

\* raw JSON score fields: a number (in tenths), a missing field, null,
\* or a non-numeric string
RawNum(t) == [k |-> "num", t |-> t]

RawAbsent == [k |-> "absent", t |-> 0]

RawNull == [k |-> "null", t |-> 0]

RawStr == [k |-> "str", t |-> 0]

\* reasoning strings are word sequences; "" is the empty sequence
UndefinedR == <<"<undefined>">>

DefaultReasoning == <<"Could", "not", "generate", "match", "score", "defaulted", "to", "50">>

Contains(s, w) == \E i \in 1..Len(s) : s[i] = w

\* a || b on reasoning strings: undefined and "" are falsy
OrElse(a, b) == IF a = UndefinedR \/ a = <<>> THEN b ELSE a

Min(a, b) == IF a <= b THEN a ELSE b

Max(a, b) == IF a >= b THEN a ELSE b

\* Math.round(x): ToNumber first (undefined and non-numeric strings give
\* NaN, null gives 0), then round half up: floor(x + 0.5)
MathRound(raw) ==
    CASE raw.k = "num" -> Num((raw.t + 5) \div 10)
      [] raw.k = "null" -> Num(0)
      [] OTHER -> NaN

\* Math.max(0, Math.min(100, x)); NaN propagates through both
Clamp(x) == IF x.nan THEN NaN ELSE Num(Max(0, Min(100, x.v)))

\* ------------------------------------------------------------------------
\* JSON values and response texts
\* ------------------------------------------------------------------------
JObject(score, reasoning) == [type |-> "object", score |-> score, reasoning |-> reasoning, items |-> <<>>]

JNull == [type |-> "null", score |-> RawAbsent, reasoning |-> UndefinedR, items |-> <<>>]

JArray(items) == [type |-> "array", score |-> RawAbsent, reasoning |-> UndefinedR, items |-> items]

\* response text: a sequence of tokens; fences are the markdown code fences
TFenceJson == [t |-> "fence_json", v |-> JNull]

TFence == [t |-> "fence", v |-> JNull]

TJunk == [t |-> "junk", v |-> JNull]

TJson(v) == [t |-> "json", v |-> v]

Plain(v) == <<TJson(v)>>

Fenced(v) == <<TFenceJson, TJson(v), TFence>>

\* both replace calls drop every code-fence marker; trim drops the rest
StripFences(text) == SelectSeq(text, LAMBDA tok : tok.t # "fence_json" /\ tok.t # "fence")

\* JSON.parse: exactly one JSON document, anything else is a SyntaxError
ParseOk(cleaned) == Len(cleaned) = 1 /\ cleaned[1].t = "json"

ParseValue(cleaned) == cleaned[1].v

\* ------------------------------------------------------------------------
\* Match scorer
\* ------------------------------------------------------------------------
Fallback == [score |-> Num(FALLBACK_SCORE), reasoning |-> DefaultReasoning]

\* an upstream outcome of one generateContent call raced against the timer
Reject == [kind |-> "reject", text |-> <<>>]

Timeout == [kind |-> "timeout", text |-> <<>>]

Resolve(text) == [kind |-> "resolve", text |-> text]

\* scoreJobMatch: the try block and its catch
\* variant: the catch returns a zero score instead of the fallback
scoreJobMatchZero(out) ==
    IF out.kind # "resolve" THEN [score |-> Num(0), reasoning |-> <<"No", "score">>]
    ELSE LET cleaned == StripFences(out.text) IN
         IF ~ParseOk(cleaned) THEN [score |-> Num(0), reasoning |-> <<"No", "score">>]
         ELSE LET parsed == ParseValue(cleaned) IN
              IF parsed.type = "null" THEN Fallback
              ELSE [score |-> Clamp(MathRound(parsed.score)), reasoning |-> parsed.reasoning]

scoreJobMatch(out) ==
    IF out.kind # "resolve" THEN Fallback
    ELSE LET cleaned == StripFences(out.text) IN
         IF ~ParseOk(cleaned) THEN Fallback
         ELSE LET parsed == ParseValue(cleaned) IN
              IF parsed.type = "null" THEN Fallback
              ELSE [score |-> Clamp(MathRound(parsed.score)), reasoning |-> parsed.reasoning]

\* scoreBatchSingle: one upstream call for a chunk of jobs; entry i of the
\* parsed array answers job i of the chunk
EntryAt(parsed, i) ==
    IF parsed.type = "array" /\ i <= Len(parsed.items) THEN parsed.items[i] ELSE JNull

\* parsed[i]?.score ?? 50
ScoreOrDefault(entry) ==
    IF entry.type = "null" \/ entry.score.k \in {"absent", "null"}
    THEN RawNum(FALLBACK_SCORE * 10) ELSE entry.score

ShapeMismatch(parsed, n) == parsed.type # "array" \/ Len(parsed.items) # n

AllFallback(n) == [i \in 1..n |-> Fallback]

\* variant: a wrong-length answer is discarded as a whole
MismatchResultsAllDefault(parsed, n) == AllFallback(n)

MismatchResults(parsed, n) ==
    [i \in 1..n |->
        [score |-> Clamp(MathRound(ScoreOrDefault(EntryAt(parsed, i)))),
         reasoning |-> OrElse(EntryAt(parsed, i).reasoning, DefaultReasoning)]]

scoreBatchSingle(n, out) ==
    IF out.kind # "resolve" THEN AllFallback(n)
    ELSE LET cleaned == StripFences(out.text) IN
         IF ~ParseOk(cleaned) THEN AllFallback(n)
         ELSE LET parsed == ParseValue(cleaned) IN
              IF ShapeMismatch(parsed, n)
              THEN (IF parsed.type = "null" THEN AllFallback(n) ELSE MismatchResults(parsed, n))
              ELSE IF \E i \in 1..n : parsed.items[i].type = "null" THEN AllFallback(n)
              ELSE [i \in 1..n |->
                       [score |-> Clamp(MathRound(parsed.items[i].score)),
                        reasoning |-> parsed.items[i].reasoning]]

\* log entries scoreBatchSingle adds through the logger it is handed
LogEntry(level, category, what) == [level |-> level, category |-> category, what |-> what]

scoreBatchSingleLog(n, out) ==
    IF out.kind # "resolve" THEN <<LogEntry("error", "scoring", "Batch scoring failed")>>
    ELSE LET cleaned == StripFences(out.text) IN
         IF ~ParseOk(cleaned) THEN <<LogEntry("error", "scoring", "Batch scoring failed")>>
         ELSE LET parsed == ParseValue(cleaned) IN
              IF ShapeMismatch(parsed, n)
              THEN <<LogEntry("error", "scoring", "Expected n results")>>
                   \o (IF parsed.type = "null"
                       THEN <<LogEntry("error", "scoring", "Batch scoring failed")>> ELSE <<>>)
              ELSE IF \E i \in 1..n : parsed.items[i].type = "null"
                   THEN <<LogEntry("error", "scoring", "Batch scoring failed")>>
              ELSE <<>>

\* ------------------------------------------------------------------------
\* Query builder
\* ------------------------------------------------------------------------
\* s.slice(0, n)
\* variant: the slice keeps every element
TakeAll(s, n) == s

Take(s, n) == SubSeq(s, 1, Min(n, Len(s)))

\* variant: the qualifier of entry is cut short
seniorityMapShort(sen) ==
    CASE sen = "entry" -> <<"entry", "level">>
      [] sen = "mid" -> <<"mid", "level">>
      [] sen = "senior" -> <<"senior">>
      [] OTHER -> <<>>

seniorityMap(sen) ==
    CASE sen = "entry" -> <<"entry", "level", "OR", "junior">>
      [] sen = "mid" -> <<"mid", "level">>
      [] sen = "senior" -> <<"senior">>
      [] OTHER -> <<>>

\* queries are word sequences; template `${q} ${seniorityStr}` is q \o words
buildSearchQueries(parsed, filters) ==
    LET titles == Take(parsed.job_titles, 4)
        topSkills == Take(parsed.skills, 3)
        skillQueries == [i \in 1..Len(topSkills) |-> topSkills[i] \o <<"jobs">>]
        queries == IF Len(titles) = 0
                   THEN (IF Len(skillQueries) = 0 THEN << <<"software", "developer">> >>
                         ELSE skillQueries)
                   ELSE titles
        seniorityStr == IF filters.target_seniority # "any"
                        THEN seniorityMap(filters.target_seniority) ELSE <<>>
    IN  IF seniorityStr # <<>>
        THEN [i \in 1..Len(queries) |-> queries[i] \o seniorityStr]
        ELSE queries

\* the version of buildSearchQueries in lib/search/query-builder.ts: the
\* skills fallback is one query of the top skills joined by spaces (the
\* empty string without skills), and the first three keywords of the
\* filter are appended to every query
buildSearchQueriesKeyworded(parsed, filters) ==
    LET titles == Take(parsed.job_titles, 4)
        topSkills == Take(parsed.skills, 3)
        joined == IF Len(topSkills) = 0 THEN <<>>
                  ELSE IF Len(topSkills) = 1 THEN topSkills[1]
                  ELSE IF Len(topSkills) = 2 THEN topSkills[1] \o topSkills[2]
                  ELSE topSkills[1] \o topSkills[2] \o topSkills[3]
        queries == IF Len(titles) = 0 THEN <<joined>> ELSE titles
        seniorityStr == IF filters.target_seniority # "any"
                        THEN seniorityMap(filters.target_seniority) ELSE <<>>
        result == IF seniorityStr # <<>>
                  THEN [i \in 1..Len(queries) |-> queries[i] \o seniorityStr]
                  ELSE queries
        kw == Take(filters.keywords, 3)
        keywordStr == IF Len(kw) = 0 THEN <<>>
                      ELSE IF Len(kw) = 1 THEN <<kw[1]>>
                      ELSE IF Len(kw) = 2 THEN <<kw[1], kw[2]>>
                      ELSE <<kw[1], kw[2], kw[3]>>
    IN  IF Len(filters.keywords) > 0
        THEN [i \in 1..Len(result) |-> result[i] \o keywordStr]
        ELSE result

\* buildSerpApiParams: the chip of the listing-age filter
ageMap(age) ==
    CASE age = 1 -> "date_posted:today"
      [] age = 3 -> "date_posted:3days"
      [] age = 7 -> "date_posted:week"
      [] OTHER -> "date_posted:month"

\* Object.keys(ageMap).map(Number).sort((a, b) => a - b)
ages == <<1, 3, 7, 14, 30>>

\* ages.find((a) => a >= max) || ages[ages.length - 1]
\* variant: the last bucket that is not above the requested age
closestBelow(max) ==
    IF \E k \in 1..Len(ages) : ages[k] <= max
    THEN ages[CHOOSE k \in 1..Len(ages) : ages[k] <= max /\ \A j \in (k + 1)..Len(ages) : ages[j] > max]
    ELSE ages[1]

closest(max) ==
    IF \E k \in 1..Len(ages) : ages[k] >= max
    THEN ages[CHOOSE k \in 1..Len(ages) : ages[k] >= max /\ \A j \in 1..(k - 1) : ages[j] < max]
    ELSE ages[Len(ages)]

\* absent keys of the params object are Undef
buildSerpApiParams(query, filters) ==
    [engine |-> "google_jobs", q |-> query,
     location |-> IF filters.location \notin {Null, Undef, ""} THEN filters.location ELSE Undef,
     chips |-> IF filters.max_listing_age_days # 0
               THEN ageMap(closest(filters.max_listing_age_days)) ELSE Undef]

\* ------------------------------------------------------------------------
\* Search client
\* ------------------------------------------------------------------------
MAX_PAGES == 3

\* a raw listing of the search service; apply_options holds the links of
\* the options in order (a missing list is the empty list)
SerpApiJob(title, company, apply, share, wfh) ==
    [title |-> title, company_name |-> company, apply_options |-> apply,
     share_link |-> share, work_from_home |-> wfh]

FalsyStr(x) == x = "" \/ x = Undef

\* job.apply_options?.[0]?.link || job.share_link || null

\* variant: the trailing null is missing
applyLinkNoNull(job) ==
    IF Len(job.apply_options) > 0 /\ ~FalsyStr(job.apply_options[1])
    THEN job.apply_options[1]
    ELSE job.share_link

applyLink(job) ==
    IF Len(job.apply_options) > 0 /\ ~FalsyStr(job.apply_options[1])
    THEN job.apply_options[1]
    ELSE IF ~FalsyStr(job.share_link) THEN job.share_link
    ELSE Null

normalizeJob(job, resumeId) ==
    [resume_id |-> resumeId, title |-> job.title, company |-> job.company_name,
     url |-> applyLink(job), source |-> "google_jobs", posted_at |-> Null,
     is_remote |-> (job.work_from_home = "true")]

\* one page of the service's answer to a query: HTTP success with the
\* listings and the pagination token, no error field
Page(jobs, token) == [jobs_results |-> jobs, next_page_token |-> token, error |-> Undef]

\* an HTTP success whose body carries an error field
ErrorPage(msg) == [jobs_results |-> <<>>, next_page_token |-> Undef, error |-> msg]

\* the pages served when request errAt (0: none) is answered with an error body
WithErrorAt(pages, errAt) ==
    [k \in 1..Len(pages) |-> IF k = errAt THEN ErrorPage("Invalid key") ELSE pages[k]]

\* if (!nextPageToken || jobs.length === 0) break
\* variant: an empty page does not end the loop
stopPagingOnTokenOnly(data) == FalsyStr(data.next_page_token)

stopPaging(data) == FalsyStr(data.next_page_token) \/ Len(data.jobs_results) = 0

\* the locals of searchJobs before the first request; sent is the
\* next_page_token parameter of each request so far (Undef: not set)
NoPagesYet == [allJobs |-> <<>>, nextPageToken |-> Undef, sent |-> <<>>]

\* a page request that fails throws out of the page loop; variant returning
\* the listings of the pages fetched before it
pageFailedKeepsEarlier(allJobs, page, error, sent) ==
    [ok |-> TRUE, jobs |-> allJobs, requests |-> page, error |-> "", tokens |-> sent]
pageFailed(allJobs, page, error, sent) ==
    [ok |-> FALSE, jobs |-> <<>>, requests |-> page, error |-> error, tokens |-> sent]

\* searchJobs: the page loop over the service's pages for one query;
\* failAt is the request answered with a non-success HTTP status (0: none),
\* keyMissing the absent SERPAPI_API_KEY.  Returns the listings, or the
\* error thrown.
RECURSIVE FetchPages(_, _, _, _)
FetchPages(pages, page, failAt, acc) ==
    IF page > MAX_PAGES \/ page > Len(pages)
    THEN [ok |-> TRUE, jobs |-> acc.allJobs, requests |-> page - 1, error |-> "", tokens |-> acc.sent]
    ELSE LET sent == Append(acc.sent, IF FalsyStr(acc.nextPageToken) THEN Undef
                                      ELSE acc.nextPageToken)
         IN
         IF page = failAt
         THEN pageFailed(acc.allJobs, page, "SerpAPI request failed", sent)
         ELSE IF ~FalsyStr(pages[page].error)
         THEN pageFailed(acc.allJobs, page, "SerpAPI error", sent)
         ELSE LET data == pages[page]
                  all == acc.allJobs \o data.jobs_results
              IN  IF stopPaging(data)
                  THEN [ok |-> TRUE, jobs |-> all, requests |-> page, error |-> "", tokens |-> sent]
                  ELSE FetchPages(pages, page + 1, failAt,
                                  [allJobs |-> all, nextPageToken |-> data.next_page_token,
                                   sent |-> sent])

\* variant: the api key is not checked
searchJobsNoKeyCheck(pages, keyMissing, failAt) == FetchPages(pages, 1, failAt, NoPagesYet)

searchJobs(pages, keyMissing, failAt) ==
    IF keyMissing
    THEN [ok |-> FALSE, jobs |-> <<>>, requests |-> 0, error |-> "SERPAPI_API_KEY is not configured",
          tokens |-> <<>>]
    ELSE FetchPages(pages, 1, failAt, NoPagesYet)

\* ------------------------------------------------------------------------
\* Candidate filtering (the loop over the listings of one query)
\* ------------------------------------------------------------------------
toLowerCase(s) ==
    [i \in 1..Len(s) |-> CASE s[i] = "A" -> "a" [] s[i] = "B" -> "b" [] OTHER -> s[i]]

includes(s, sub) ==
    \E i \in 0..(Len(s) - Len(sub)) : SubSeq(s, i + 1, i + Len(sub)) = sub

\* the branch taken for one listing of a query, with whether its url was
\* in existingUrls when it was examined
Decided(st, job, normalized, outcome) ==
    Append(st.decided, [job |-> job, known |-> normalized.url \in st.existingUrls,
                        outcome |-> outcome])

\* variant: the fragment is compared without lower-casing either side
isExcludedCaseSensitive(job, filters) ==
    \E k \in 1..Len(filters.excluded_companies) :
        includes(job.company_name, filters.excluded_companies[k])

isExcluded(job, filters) ==
    \E k \in 1..Len(filters.excluded_companies) :
        includes(toLowerCase(job.company_name), toLowerCase(filters.excluded_companies[k]))

\* variant: an accepted url is not added to existingUrls
RECURSIVE filterJobsNoAdd(_, _, _, _, _)
filterJobsNoAdd(jobs, k, st, filters, resume) ==
    IF k > Len(jobs) THEN st
    ELSE LET job == jobs[k]
             normalized == normalizeJob(job, resume.id)
             next ==
                 IF isExcluded(job, filters)
                 THEN [st EXCEPT !.skippedExcluded = @ + 1,
                                 !.decided = Decided(st, job, normalized, "skippedExcluded")]
                 ELSE IF normalized.url = Null
                 THEN [st EXCEPT !.skippedNoUrl = @ + 1,
                                 !.decided = Decided(st, job, normalized, "skippedNoUrl")]
                 ELSE IF normalized.url \in st.existingUrls
                 THEN [st EXCEPT !.skippedDuplicate = @ + 1,
                                 !.decided = Decided(st, job, normalized, "skippedDuplicate")]
                 ELSE IF filters.remote_preference = "remote" /\ ~normalized.is_remote
                 THEN [st EXCEPT !.skippedRemote = @ + 1,
                                 !.decided = Decided(st, job, normalized, "skippedRemote")]
                 ELSE [st EXCEPT !.decided = Decided(st, job, normalized, "accepted"),
                                 !.candidates = Append(@, [normalized |-> normalized,
                                                           resumeUserId |-> resume.user_id])]
         IN  filterJobsNoAdd(jobs, k + 1, next, filters, resume)

\* st: the profile's accumulators (candidates, existingUrls, skip counters)
RECURSIVE filterJobs(_, _, _, _, _)
filterJobs(jobs, k, st, filters, resume) ==
    IF k > Len(jobs) THEN st
    ELSE LET job == jobs[k]
             normalized == normalizeJob(job, resume.id)
             next ==
                 IF isExcluded(job, filters)
                 THEN [st EXCEPT !.skippedExcluded = @ + 1,
                                 !.decided = Decided(st, job, normalized, "skippedExcluded")]
                 ELSE IF normalized.url = Null
                 THEN [st EXCEPT !.skippedNoUrl = @ + 1,
                                 !.decided = Decided(st, job, normalized, "skippedNoUrl")]
                 ELSE IF normalized.url \in st.existingUrls
                 THEN [st EXCEPT !.skippedDuplicate = @ + 1,
                                 !.decided = Decided(st, job, normalized, "skippedDuplicate")]
                 ELSE IF filters.remote_preference = "remote" /\ ~normalized.is_remote
                 THEN [st EXCEPT !.skippedRemote = @ + 1,
                                 !.decided = Decided(st, job, normalized, "skippedRemote")]
                 ELSE [st EXCEPT !.existingUrls = @ \cup {normalized.url},
                                 !.decided = Decided(st, job, normalized, "accepted"),
                                 !.candidates = Append(@, [normalized |-> normalized,
                                                           resumeUserId |-> resume.user_id])]
         IN  filterJobs(jobs, k + 1, next, filters, resume)

\* allUrls: the non-null urls of a query's listings, sent to the lookup
allUrlsOf(jobs, resumeId) ==
    {normalizeJob(jobs[k], resumeId).url : k \in 1..Len(jobs)} \ {Null}

\* ------------------------------------------------------------------------
\* The world the runs execute in: resumes, search_filters, the search
\* service's answers and the AI service's possible answers
\* ------------------------------------------------------------------------
\* injected persistence faults per behaviour (filter lookup, url lookup,
\* insert failures other than the unique index)
MaxFaults == 1

Runs == {1, 2}

Resume(id, user, titles, skills) ==
    [id |-> id, user_id |-> user, parsed_data |-> [job_titles |-> titles, skills |-> skills]]

ResumesTable(world) ==
    IF world = "small"
    THEN << Resume("r1", "alice", << <<"Engineer">>, <<"Developer">> >>, << <<"React">> >>),
            Resume("r2", "bob", <<>>, <<>>) >>
    ELSE << Resume("r3", "carol", << <<"Analyst">> >>, <<>>) >>

SearchFilter(resumeId, remote, seniority, excluded) ==
    [resume_id |-> resumeId, keywords |-> <<>>, remote_preference |-> remote,
     target_seniority |-> seniority, max_listing_age_days |-> 7, excluded_companies |-> excluded]

\* the literal default of executeJobSearch for a resume without filters
DefaultFilters(resumeId) == SearchFilter(resumeId, "any", "any", <<>>)

SearchFiltersTable == {SearchFilter("r1", "remote", "senior", << <<"A", "b">> >>)}

xy == <<"x", "y">>

JobA == SerpApiJob("A", xy, <<"u1", "u2">>, "u3", "true")

JobB == SerpApiJob("B", xy, <<>>, Undef, "true")

JobC == SerpApiJob("C", xy, <<"">>, "u1", "true")

JobD == SerpApiJob("D", <<"x", "a", "B">>, <<"u2">>, Undef, "true")

JobE == SerpApiJob("E", xy, <<"u2">>, Undef, "true")

JobF == SerpApiJob("F", xy, <<"u3">>, Undef, "false")

JobG == SerpApiJob("G", xy, <<>>, "u2", Undef)

JobH == SerpApiJob("H", xy, <<"u3">>, "", "false")

TitleOf(i) == <<"j1", "j2", "j3", "j4", "j5", "j6", "j7", "j8", "j9", "j10", "j11", "j12">>[i]

UrlOf(i) == <<"b1", "b2", "b3", "b4", "b5", "b6", "b7", "b8", "b9", "b10", "b11", "b12">>[i]

BulkJob(i) == SerpApiJob(TitleOf(i), xy, <<UrlOf(i)>>, Undef, Undef)

\* the service answers by query text (its first word tells the queries apart)
ServicePages(queryStr) ==
    CASE queryStr[1] = "Engineer" -> << Page(<<JobA, JobB>>, "t1"), Page(<<JobC, JobD>>, Undef) >>
      [] queryStr[1] = "Developer" -> << Page(<<JobE, JobF, JobA>>, Undef) >>
      [] queryStr[1] = "software" -> << Page(<<JobG>>, "t2"), Page(<<JobH>>, "t3"),
                                        Page(<<>>, "t4"), Page(<<JobA>>, Undef) >>
      [] OTHER -> << Page([i \in 1..6 |-> BulkJob(i)], Undef) >>

\* answers of the AI service to a prompt listing the given job titles
About(title) == <<"about", title>>

LeanScores == {RawNum(727), RawNum(1500), RawAbsent}

RichScores == {RawNum(-100), RawNum(727), RawNum(1500), RawAbsent, RawNull, RawStr}

Failures == {Reject, Timeout, Resolve(<<TJunk>>)}

SingleOutcomes(title, rich) ==
    Failures
    \cup {Resolve(Plain(JObject(sc, About(title)))) : sc \in (IF rich THEN RichScores ELSE LeanScores)}
    \cup (IF rich
          THEN {Resolve(Fenced(JObject(RawNum(850), About(title)))), Resolve(Plain(JNull)),
                Resolve(Plain(JObject(RawNum(304), UndefinedR)))}
          ELSE {})

\* arrays of len entries, all with score sc, entry i about the i-th title
UniformArray(titles, len, sc) ==
    JArray([i \in 1..len |-> JObject(sc, About(IF i <= Len(titles) THEN titles[i] ELSE "extra"))])

\* arrays with entry k replaced by another entry
PatchedArray(titles, len, sc, k, entry) ==
    JArray([i \in 1..len |-> IF i = k THEN entry ELSE UniformArray(titles, len, sc).items[i]])

BatchOutcomes(titles, rich) ==
    LET n == Len(titles) IN
    Failures
    \cup {Resolve(Plain(UniformArray(titles, len, sc))) : len \in {n - 1, n, n + 1}, sc \in LeanScores}
    \cup (IF rich
          THEN {Resolve(Plain(PatchedArray(titles, len, RawNum(850), k, e))) :
                    len \in {n - 1, n}, k \in {1, n - 1},
                    e \in {JNull} \cup {JObject(sc, <<>>) : sc \in RichScores}}
               \cup {Resolve(Fenced(UniformArray(titles, n, RawNum(1004)))),
                     Resolve(Plain(JNull)),
                     Resolve(Plain(JObject(RawNum(850), About(titles[1]))))}
          ELSE {})

\* ------------------------------------------------------------------------
\* State
\* ------------------------------------------------------------------------
\* an empty bucket
NoObjects == [name \in {} |-> <<>>]

VARIABLES
    run,           \* run[r]: the locals of invocation r of executeJobSearch
    job_listings,  \* rows of public.job_listings
    env,           \* world, SERPAPI_API_KEY present, richness of AI answers
    faults,        \* persistence faults injected so far
    storage        \* objects of the storage bucket "pipeline-logs", by name

vars == <<run, job_listings, env, faults, storage>>

EmptyAcc ==
    [candidates |-> <<>>, existingUrls |-> {}, skippedExcluded |-> 0,
     skippedNoUrl |-> 0, skippedDuplicate |-> 0, skippedRemote |-> 0, decided |-> <<>>]

\* locals of one invocation; the last fields are history of what the run
\* did: search requests sent, upstream AI calls (path, listings sent,
\* outcome), insert attempts, urls the lookups reported for the current
\* resume, urls persisted when the run began, whether another run had
\* already finished by then, the calls of searchJobs (resume, query,
\* outcome), the non-fatal errors that occurred, by kind, the upstream
\* calls that lost the race to the timer and are still in flight, and the
\* number of their answers that arrived afterwards
InitRun(pc, resumeId) ==
    [pc |-> pc, resumeId |-> resumeId, resumes |-> <<>>, p |-> 0,
     searchFilters |-> DefaultFilters(""), queries |-> <<>>, q |-> 0,
     acc |-> EmptyAcc, serpApiResults |-> 0,
     sI |-> 0, matchResults |-> <<>>, i |-> 0, insertErrors |-> 0, totalNewJobs |-> 0,
     log |-> <<>>, result |-> [new_jobs_found |-> 0, resumes_searched |-> 0],
     requests |-> 0, upstream |-> <<>>, attempts |-> <<>>, reported |-> {},
     startUrls |-> {}, sequel |-> FALSE, searches |-> <<>>, failures |-> <<>>,
     inflight |-> <<>>, late |-> 0, delays |-> <<>>, trace |-> <<>>]

PersistedUrls == {row.url : row \in job_listings} \ {Null}

ExistingRow == [id |-> <<0, "r0", 0>>, resume_id |-> "r0", user_id |-> "dave", title |-> "old",
                url |-> "u3", match_score |-> Num(64), match_reasoning |-> About("old"),
                status |-> "saved"]

\* the triggers explored: one unscoped run over either world, one run
\* naming a resume that does not exist, or two runs (scheduled and manual,
\* free to overlap) that both name resume r2
Triggers ==
    {<<"small", Undef, "none">>, <<"bulk", Undef, "none">>,
     <<"small", "r9", "none">>, <<"small", "r2", "r2">>}

Init ==
    /\ \E t \in Triggers, key \in BOOLEAN :
          /\ env = [world |-> t[1], apiKey |-> key, rich |-> FALSE]
          /\ run = [r \in Runs |->
                      IF r = 1 THEN InitRun("start", t[2])
                      ELSE IF t[3] = "none" THEN InitRun("idle", Undef)
                      ELSE InitRun("start", t[3])]
    /\ job_listings \in {{}, {ExistingRow}}
    /\ faults = 0
    /\ storage = NoObjects

Log(rec, entries) == [rec EXCEPT !.log = @ \o entries]

Info(category, what) == LogEntry("info", category, what)

\* end of the body of the profile loop: next resume, or the summary and return
NextProfile(rec) ==
    IF rec.p < Len(rec.resumes)
    THEN [rec EXCEPT !.p = @ + 1, !.pc = "profile"]
    ELSE [Log(rec, <<Info("summary", "Search complete")>>) EXCEPT
             !.pc = "done",
             !.result = [new_jobs_found |-> rec.totalNewJobs,
                         resumes_searched |-> Len(rec.resumes)]]

\* execute.ts 40-43: the resumes query returned an error
\* variant: the error is logged and the run returns as if no resume was active
resumeErrorReturns(rec) ==
    [Log(rec, <<LogEntry("error", "setup", "Failed to fetch resumes")>>) EXCEPT !.pc = "done"]

resumeErrorThrows(rec) ==
    [Log(rec, <<LogEntry("error", "setup", "Failed to fetch resumes")>>) EXCEPT !.pc = "thrown"]

\* execute.ts 27-52: the resumes query
LoadResumes(r) ==
    /\ run[r].pc = "start"
    /\ \E resumeError \in BOOLEAN :
         LET rec == [run[r] EXCEPT !.startUrls = PersistedUrls,
                                      !.sequel = \E o \in Runs : run[o].pc \in {"done", "thrown"}]
             table == ResumesTable(env.world)
             resumes == SelectSeq(table, LAMBDA row :
                            rec.resumeId = Undef \/ row.id = rec.resumeId)
         IN  run' = [run EXCEPT ![r] =
                 IF resumeError
                 THEN resumeErrorThrows(rec)
                 ELSE IF Len(resumes) = 0
                 THEN [Log(rec, <<Info("setup", "No active resumes")>>) EXCEPT !.pc = "done"]
                 ELSE [Log(rec, <<Info("setup", "Found resumes")>>) EXCEPT
                          !.resumes = resumes, !.p = 1, !.pc = "profile", !.totalNewJobs = 0]]
    /\ UNCHANGED <<job_listings, env, faults, storage>>

\* execute.ts 54-89: filters of the resume, queries, fresh accumulators
BeginProfile(r) ==
    /\ run[r].pc = "profile"
    /\ \E lookupFails \in BOOLEAN :
         /\ lookupFails => faults < MaxFaults
         /\ faults' = IF lookupFails THEN faults + 1 ELSE faults
         /\ LET rec == run[r]
                resume == rec.resumes[rec.p]
                rows == {f \in SearchFiltersTable : f.resume_id = resume.id}
                searchFilters == IF lookupFails \/ rows = {} THEN DefaultFilters(resume.id)
                                 ELSE CHOOSE f \in rows : TRUE
                queries == buildSearchQueries(resume.parsed_data, searchFilters)
            IN  run' = [run EXCEPT ![r] =
                    [Log(rec, <<Info("queries", "queries built")>>
                              \o [k \in 1..Len(queries) |-> Info("queries", "Query")])
                       EXCEPT !.searchFilters = searchFilters, !.queries = queries, !.q = 1,
                              !.acc = EmptyAcc, !.serpApiResults = 0, !.reported = {},
                              !.failures = @ \o (IF lookupFails THEN <<"filter_lookup">> ELSE <<>>),
                              !.pc = "query"]]
    /\ UNCHANGED <<job_listings, env, storage>>

\* execute.ts 156-176: the filtering summary, then either the next resume
\* (no candidates) or the call of scoreJobBatch
AfterQueries(rec) ==
    LET a == rec.acc
        summary ==
            <<Info("filtering", "SerpAPI returned")>>
            \o (IF a.skippedDuplicate > 0 THEN <<Info("filtering", "Skipped duplicate")>> ELSE <<>>)
            \o (IF a.skippedExcluded > 0 THEN <<Info("filtering", "Skipped excluded")>> ELSE <<>>)
            \o (IF a.skippedNoUrl > 0 THEN <<LogEntry("warn", "filtering", "Skipped no URL")>> ELSE <<>>)
            \o (IF a.skippedRemote > 0 THEN <<Info("filtering", "Skipped non-remote")>> ELSE <<>>)
            \o <<Info("filtering", "new candidates to score")>>
        logged == Log(rec, summary)
    IN  IF Len(a.candidates) = 0 THEN NextProfile(logged)
        ELSE [Log(logged, <<Info("scoring", "Scoring candidates")>>) EXCEPT
                 !.pc = "score", !.sI = 0, !.matchResults = <<>>]

\* execute.ts 150-153: the catch of the query loop
\* variant: the catch logs nothing
catchSearchErrorSilent(rec, res) == [rec EXCEPT !.requests = @ + res.requests]

catchSearchError(rec, res) ==
    [Log(rec, <<LogEntry("error", "serpapi", "Search error")>>) EXCEPT
        !.requests = @ + res.requests]

\* one entry per awaited call of the profile loop: the k-th of `of` calls of a
\* phase of profile p has returned
Phase(rec, phase, k, of) ==
    Append(rec.trace, [p |-> rec.p, phase |-> phase, k |-> k, of |-> of])

Searched(rec, res, failAt) ==
    Append(rec.searches, [p |-> rec.p, query |-> rec.queries[rec.q], ok |-> res.ok,
                          error |-> res.error, requests |-> res.requests,
                          failedPage |-> IF failAt >= 1 /\ res.requests >= failAt
                                         THEN failAt ELSE 0])

\* execute.ts 91-154: one iteration of the query loop (searchJobs, the
\* batched url lookup, the filter loop; or the catch); the service may
\* answer one request with a non-success status or with an error body
SearchQuery(r) ==
    /\ run[r].pc = "query"
    /\ \E failAt \in 0..MAX_PAGES, inBody \in BOOLEAN, lookupFails \in BOOLEAN :
         \E res \in {searchJobs(IF inBody
                                  THEN WithErrorAt(ServicePages(run[r].queries[run[r].q]), failAt)
                                  ELSE ServicePages(run[r].queries[run[r].q]),
                                  ~env.apiKey, IF inBody THEN 0 ELSE failAt)} :
         LET rec == run[r]
             resume == rec.resumes[rec.p]
             allUrls == allUrlsOf(res.jobs, resume.id)
             existingJobs == IF lookupFails THEN {} ELSE allUrls \cap PersistedUrls
             seen == [rec.acc EXCEPT !.existingUrls = @ \cup existingJobs]
             searched ==
                 IF res.ok
                 THEN [Log(rec, <<Info("serpapi", "results")>>) EXCEPT
                          !.serpApiResults = @ + Len(res.jobs),
                          !.acc = filterJobs(res.jobs, 1, seen, rec.searchFilters, resume),
                          !.requests = @ + res.requests,
                          !.reported = @ \cup existingJobs]
                 ELSE catchSearchError(rec, res)
             stepped == [searched EXCEPT !.q = @ + 1, !.searches = Searched(rec, res, failAt),
                                         !.trace = Phase(rec, "search", rec.q, Len(rec.queries)),
                                         !.failures = @ \o (IF res.ok THEN <<>> ELSE <<"search">>)
                                                        \o (IF lookupFails THEN <<"url_lookup">> ELSE <<>>)]
         IN  /\ lookupFails => (res.ok /\ allUrls # {} /\ faults < MaxFaults)
             /\ faults' = IF lookupFails THEN faults + 1 ELSE faults
             /\ run' = [run EXCEPT ![r] =
                    IF rec.q < Len(rec.queries) THEN stepped ELSE AfterQueries(stepped)]
    /\ UNCHANGED <<job_listings, env, storage>>

\* matcher.ts 202-235 and execute.ts 178-190: one step of scoreJobBatch
\* (the single path, or one chunk), and on its return the score
\* distribution entry
TitlesOf(cands) == [k \in 1..Len(cands) |-> cands[k].normalized.title]

SentOf(cands) == [k \in 1..Len(cands) |->
                     [resume_id |-> cands[k].normalized.resume_id, url |-> cands[k].normalized.url,
                      title |-> cands[k].normalized.title]]

Call(path, cands, out) == [path |-> path, sent |-> SentOf(cands), out |-> out]

Scored(rec) ==
    [Log(rec, <<Info("scoring", "Score distribution")>>) EXCEPT
        !.pc = "insert", !.i = 1, !.insertErrors = 0]

\* the call ended in the catch of the scorer, or on its wrong-length branch
ScoringFailed(path, n, out) ==
    \/ out.kind # "resolve"
    \/ ~ParseOk(StripFences(out.text))
    \/ ParseValue(StripFences(out.text)).type = "null"
    \/ path = "batch" /\ ShapeMismatch(ParseValue(StripFences(out.text)), n)
    \/ path = "batch" /\ \E i \in 1..n : ParseValue(StripFences(out.text)).items[i].type = "null"

Failed(rec, path, n, out) ==
    rec.failures \o (IF ScoringFailed(path, n, out) THEN <<IF path = "single" THEN "scoring_single" ELSE "scoring_batch">> ELSE <<>>)

\* Promise.race settled by the timer: the request stays in flight
Abandoned(rec, out) ==
    rec.inflight \o (IF out.kind = "timeout" THEN <<Len(rec.upstream) + 1>> ELSE <<>>)

\* variant: the slice is one short
ChunkOfShort(jobs, i) == SubSeq(jobs, i + 1, Min(i + BATCH_SIZE - 1, Len(jobs)))

ChunkOf(jobs, i) == SubSeq(jobs, i + 1, Min(i + BATCH_SIZE, Len(jobs)))

\* matcher.ts 104-111, 158-166: the scoring call is raced against a timer, so
\* the caller goes on when either settles; variant awaiting the call alone.
raceAwaitsCallOnly(before, after, out) ==
    IF out.kind = "timeout" THEN [before EXCEPT !.pc = "awaiting"] ELSE after
race(before, after, out) == after

\* matcher.ts 229: the pause is taken only when another chunk follows; variant
\* pausing after every chunk.
delayAfterEveryBatch(i, n) == TRUE
delayBetweenBatches(i, n) == i + BATCH_SIZE < n

\* matcher.ts 206: the single-entry path is chosen on the length of the whole
\* candidate list, before the chunk loop; variant choosing it per chunk.
singleDispatchPerChunk(jobs, i) == Len(jobs) - i = 1
singleDispatch(jobs, i) == Len(jobs) = 1

ScoreStep(r) ==
    /\ run[r].pc = "score"
    /\ LET rec == run[r]
           jobs == rec.acc.candidates
       IN  IF Len(jobs) = 0 THEN run' = [run EXCEPT ![r] = [rec EXCEPT !.pc = "insert", !.i = 1]]
           ELSE IF singleDispatch(jobs, rec.sI)
           THEN \E out \in SingleOutcomes(jobs[rec.sI + 1].normalized.title, env.rich) :
                  run' = [run EXCEPT ![r] = race(rec,
                     Scored([rec EXCEPT !.matchResults = @ \o <<scoreJobMatch(out)>>,
                                        !.upstream = Append(@, Call("single",
                                            SubSeq(jobs, rec.sI + 1, rec.sI + 1), out)),
                                        !.inflight = Abandoned(rec, out),
                                        !.trace = Phase(rec, "score", rec.sI + 1, Len(jobs)),
                                        !.failures = Failed(rec, "single", 1, out)]), out)]
           ELSE LET chunk == ChunkOf(jobs, rec.sI) IN
                \E out \in BatchOutcomes(TitlesOf(chunk), env.rich) :
                  LET results == scoreBatchSingle(Len(chunk), out)
                      after == [Log(rec, <<Info("scoring", "Batch")>>
                                         \o scoreBatchSingleLog(Len(chunk), out))
                                  EXCEPT !.matchResults = @ \o results,
                                         !.upstream = Append(@, Call("batch", chunk, out)),
                                         !.inflight = Abandoned(rec, out),
                                         !.trace = Phase(rec, "score", rec.sI + Len(chunk),
                                                         Len(jobs)),
                                         !.failures = Failed(rec, "batch", Len(chunk), out)]
                  IN  run' = [run EXCEPT ![r] = race(rec,
                         IF delayBetweenBatches(rec.sI, Len(jobs))
                         THEN [after EXCEPT !.pc = "delay"]
                         ELSE Scored(after), out)]
    /\ UNCHANGED <<job_listings, env, faults, storage>>

\* the answer of the AI service to an abandoned call j arrives: the race
\* is settled, its promise has no other reader
\* variant: the late answer is written over the results of the call
lateSettleOverwrites(rec, j, answer) ==
    LET call == rec.upstream[j]
        first == IF call.path = "single" THEN 1 ELSE (j - 1) * BATCH_SIZE + 1
        results == IF call.path = "single" THEN <<scoreJobMatch(answer)>>
                   ELSE scoreBatchSingle(Len(call.sent), answer)
    IN  [rec EXCEPT !.matchResults =
            [k \in 1..Len(@) |-> IF k >= first /\ k < first + Len(call.sent)
                                 THEN results[k - first + 1] ELSE @[k]]]

lateSettle(rec, j, answer) == rec

\* answers that may still arrive for the listings of a call
LateOutcomes(call) ==
    IF call.path = "single"
    THEN {Reject, Resolve(Plain(JObject(RawNum(1500), About(call.sent[1].title))))}
    ELSE {Reject, Resolve(Plain(UniformArray([k \in 1..Len(call.sent) |-> call.sent[k].title],
                                             Len(call.sent), RawNum(1500))))}

LateAnswer(r) ==
    /\ \E x \in 1..Len(run[r].inflight) :
         LET rec == run[r]
             j == rec.inflight[x]
         IN  \E answer \in LateOutcomes(rec.upstream[j]) :
                run' = [run EXCEPT ![r] =
                   [lateSettle(rec, j, answer) EXCEPT
                       !.inflight = SubSeq(@, 1, x - 1) \o SubSeq(@, x + 1, Len(@)),
                       !.late = @ + 1]]
    /\ UNCHANGED <<job_listings, env, faults, storage>>

\* matcher.ts 228-231: the delay between two batches
ScoreDelay(r) ==
    /\ run[r].pc = "delay"
    /\ LET rec == run[r]
           waited == [rec EXCEPT !.sI = @ + BATCH_SIZE,
                                 !.delays = Append(@, Len(rec.upstream))]
       IN  run' = [run EXCEPT ![r] =
                     IF waited.sI < Len(rec.acc.candidates)
                     THEN [waited EXCEPT !.pc = "score"]
                     ELSE Scored(waited)]
    /\ UNCHANGED <<job_listings, env, faults, storage>>

\* variant: every row carries the first result
rowOfFirstResult(r, rec) ==
    LET cand == rec.acc.candidates[rec.i]
        matchResult == rec.matchResults[1]
    IN  [id |-> <<r, cand.normalized.resume_id, rec.i>>,
         resume_id |-> cand.normalized.resume_id,
         user_id |-> cand.resumeUserId, title |-> cand.normalized.title,
         url |-> cand.normalized.url, match_score |-> matchResult.score,
         match_reasoning |-> matchResult.reasoning, status |-> "new"]

\* the row handed to insert for candidate i (execute.ts 195-206)
rowOf(r, rec) ==
    LET cand == rec.acc.candidates[rec.i]
        matchResult == rec.matchResults[rec.i]
    IN  [id |-> <<r, cand.normalized.resume_id, rec.i>>,
         resume_id |-> cand.normalized.resume_id,
         user_id |-> cand.resumeUserId, title |-> cand.normalized.title,
         url |-> cand.normalized.url, match_score |-> matchResult.score,
         match_reasoning |-> matchResult.reasoning, status |-> "new"]

\* create unique index job_listings_url_idx on job_listings(url)
\* where url is not null
\* variant: no unique index
UniqueViolationNever(url) == FALSE

UniqueViolation(url) == url # Null /\ url \in PersistedUrls

\* execute.ts 210-213: the else branch of the insert loop
\* variant: a failed insert is also counted as a new job
insertFailedCounted(attempted) ==
    [Log(attempted, <<LogEntry("error", "insert", "Failed to insert")>>)
        EXCEPT !.insertErrors = @ + 1, !.totalNewJobs = @ + 1]

insertFailed(attempted) ==
    [Log(attempted, <<LogEntry("error", "insert", "Failed to insert")>>)
        EXCEPT !.insertErrors = @ + 1]

\* execute.ts 192-216: one iteration of the insert loop
\* execute.ts 192: the insert loop runs over every match result; variant
\* leaving the loop after the first row.
moreInsertsNever(rec) == FALSE
moreInserts(rec) == rec.i < Len(rec.acc.candidates)

InsertRow(r) ==
    /\ run[r].pc = "insert"
    /\ run[r].i <= Len(run[r].acc.candidates)
    /\ \E dbFails \in BOOLEAN :
         LET rec == run[r]
             row == rowOf(r, rec)
             duplicate == UniqueViolation(row.url)
             insertError == dbFails \/ duplicate
             attempted == [rec EXCEPT !.attempts = Append(@, [row |-> row, ok |-> ~insertError]),
                                      !.failures = @ \o (IF insertError THEN <<"insert">> ELSE <<>>),
                                      !.trace = Phase(rec, "insert", rec.i,
                                                      Len(rec.acc.candidates)),
                                      !.i = @ + 1]
             counted == IF insertError
                        THEN insertFailed(attempted)
                        ELSE [attempted EXCEPT !.totalNewJobs = @ + 1]
         IN  /\ dbFails => faults < MaxFaults
             /\ faults' = IF dbFails THEN faults + 1 ELSE faults
             /\ job_listings' = IF insertError THEN job_listings ELSE job_listings \cup {row}
             /\ run' = [run EXCEPT ![r] =
                    IF moreInserts(rec) THEN counted
                    ELSE NextProfile(Log(counted, <<Info("insert", "Inserted")>>))]
    /\ UNCHANGED <<env, storage>>

Next ==
    \E r \in Runs :
        \/ LoadResumes(r)
        \/ BeginProfile(r)
        \/ SearchQuery(r)
        \/ ScoreStep(r)
        \/ ScoreDelay(r)
        \/ InsertRow(r)

Spec == Init /\ [][Next]_vars

\* ------------------------------------------------------------------------
\* The scorer on its own: scoreJobBatch called with n listings, the AI
\* service free to answer each call in any of the modelled ways
\* ------------------------------------------------------------------------
\* executeJobSearch as scheduled: an awaited call that has settled resumes
\* the invocation; the answer of a scoring call that lost its race may come
\* at any time or never.
Invocation(r) ==
    \/ LoadResumes(r)
    \/ BeginProfile(r)
    \/ SearchQuery(r)
    \/ ScoreStep(r)
    \/ ScoreDelay(r)
    \/ InsertRow(r)

NextLive == \E r \in Runs : Invocation(r) \/ LateAnswer(r)

\* one invocation at a time, over either world
InitLive == Init /\ run[2].pc = "idle" /\ env.apiKey /\ job_listings = {}

SpecLive == InitLive /\ [][NextLive]_vars /\ \A r \in Runs : WF_vars(Invocation(r))

ScorerCandidates(n) ==
    [k \in 1..n |-> [normalized |-> normalizeJob(BulkJob(k), "r3"), resumeUserId |-> "carol"]]

InitScorer ==
    /\ env = [world |-> "bulk", apiKey |-> TRUE, rich |-> TRUE]
    /\ \E n \in 0..MaxJobs :
          run = [r \in Runs |->
                   IF r = 1
                   THEN [InitRun("score", Undef) EXCEPT !.acc.candidates = ScorerCandidates(n)]
                   ELSE InitRun("idle", Undef)]
    /\ job_listings = {}
    /\ faults = 0
    /\ storage = NoObjects

NextScorer == ScoreStep(1) \/ ScoreDelay(1) \/ LateAnswer(1)

SpecScorer == InitScorer /\ [][NextScorer]_vars

\* ------------------------------------------------------------------------
\* The query builder on its own: buildSearchQueries and buildSerpApiParams
\* called on profiles and filters drawn from bounded sets.  The repository
\* holds two versions of buildSearchQueries; either may be the one called.
\* ------------------------------------------------------------------------
\* longest lists of job titles, skills and keywords, largest listing age
MaxTitles == 5

MaxSkills == 4

MaxKeywords == 4

MaxAge == 32

AllTitles == << <<"Software", "Engineer">>, <<"Developer">>, <<"Architect">>, <<"D">>,
                <<"E">>, <<"F">>, <<"G">> >>

AllSkills == << <<"React">>, <<"Node">>, <<"SQL">>, <<"Docker">>, <<"Go">>, <<"Rust">> >>

AllKeywords == <<"remote", "startup", "c", "d", "e", "f">>

ParsedResumeData(titles, skills) == [job_titles |-> titles, skills |-> skills]

Profiles ==
    {ParsedResumeData(SubSeq(AllTitles, 1, t), SubSeq(AllSkills, 1, k)) :
        t \in 0..MaxTitles, k \in 0..MaxSkills}

Filters ==
    {[resume_id |-> "r1", keywords |-> SubSeq(AllKeywords, 1, k), location |-> loc,
      remote_preference |-> "any", target_seniority |-> sen, max_listing_age_days |-> age,
      excluded_companies |-> <<>>] :
        k \in 0..MaxKeywords, loc \in {Null}, sen \in {"entry", "mid", "senior", "any"},
        age \in 0..MaxAge}

NoParams == [engine |-> Undef, q |-> <<>>, location |-> Undef, chips |-> Undef]

\* locals of one use of the query builder: the inputs, the queries
\* returned, which version returned them, the queries of an earlier call
\* on the same inputs, and the params built for one of the queries
BuilderCall(parsed, filters) ==
    [pc |-> "input", parsed |-> parsed, filters |-> filters, queries |-> <<>>,
     builder |-> Undef, previous |-> <<>>, params |-> NoParams]

InitQueries ==
    /\ env = [world |-> "none", apiKey |-> TRUE, rich |-> FALSE]
    /\ \E parsed \in Profiles, filters \in Filters :
          run = [r \in Runs |-> IF r = 1 THEN BuilderCall(parsed, filters)
                                ELSE InitRun("idle", Undef)]
    /\ job_listings = {}
    /\ faults = 0
    /\ storage = NoObjects

\* a call of buildSearchQueries (part_013), the first or a repeated one
BuildQueries(r) ==
    /\ run[r].pc = "input" \/ (run[r].pc = "queries" /\ run[r].builder = "part_013")
    /\ run' = [run EXCEPT ![r] =
          [run[r] EXCEPT !.queries = buildSearchQueries(run[r].parsed, run[r].filters),
                         !.previous = run[r].queries,
                         !.builder = "part_013",
                         !.pc = IF run[r].pc = "input" THEN "queries" ELSE "again"]]
    /\ UNCHANGED <<job_listings, env, faults, storage>>

\* a call of buildSearchQueries (lib/search/query-builder.ts)
BuildQueriesKeyworded(r) ==
    /\ run[r].pc = "input"
    /\ run' = [run EXCEPT ![r] =
          [run[r] EXCEPT !.queries = buildSearchQueriesKeyworded(run[r].parsed, run[r].filters),
                         !.builder = "query-builder.ts",
                         !.pc = "queries"]]
    /\ UNCHANGED <<job_listings, env, faults, storage>>

\* a call of buildSerpApiParams for one of the queries
BuildParams(r) ==
    /\ run[r].pc = "queries"
    /\ \E k \in 1..Len(run[r].queries) :
          run' = [run EXCEPT ![r] =
             [run[r] EXCEPT !.params = buildSerpApiParams(run[r].queries[k], run[r].filters),
                            !.pc = "params"]]
    /\ UNCHANGED <<job_listings, env, faults, storage>>

NextQueries == BuildQueries(1) \/ BuildQueriesKeyworded(1) \/ BuildParams(1)

SpecQueries == InitQueries /\ [][NextQueries]_vars

\* ------------------------------------------------------------------------
\* The search client on its own: searchJobs called for one query, the
\* service holding MaxServed pages for it, each with 0 to 2 listings and
\* with or without a next-page token
\* ------------------------------------------------------------------------
MaxServed == 4

Tok(k) == <<"t1", "t2", "t3", "t4", "t5", "t6">>[k]

\* page k of the service with its first n listings
ServedPage(k, n, token) == Page([i \in 1..n |-> BulkJob(2 * (k - 1) + i)], token)

\* the shapes of a page: number of listings, and a token that is
\* missing, set, or the empty string
PageShapes ==
    {[n |-> n, token |-> t] : n \in 0..2, t \in {"missing", "set"}} \cup {[n |-> 1, token |-> "empty"]}

PageOfShape(k, shape) ==
    ServedPage(k, shape.n, CASE shape.token = "missing" -> Undef
                             [] shape.token = "set" -> Tok(k)
                             [] OTHER -> "")

\* what goes wrong in a call: nothing, no api key, or request number at
\* answered with a non-success status or with an error body
Faults ==
    {[kind |-> "none", at |-> 0], [kind |-> "key", at |-> 0]}
    \cup {[kind |-> k, at |-> n] : k \in {"status", "body"}, n \in 1..MAX_PAGES}

SearchCall(pages, fault) ==
    [pc |-> "call", pages |-> pages, fault |-> fault,
     ret |-> [ok |-> FALSE, jobs |-> <<>>, requests |-> 0, error |-> "", tokens |-> <<>>]]

InitSearch ==
    /\ env = [world |-> "none", apiKey |-> TRUE, rich |-> FALSE]
    /\ \E shapes \in [1..MaxServed -> PageShapes], fault \in Faults :
          run = [r \in Runs |->
                   IF r = 1
                   THEN SearchCall([k \in 1..MaxServed |-> PageOfShape(k, shapes[k])], fault)
                   ELSE InitRun("idle", Undef)]
    /\ job_listings = {}
    /\ faults = 0
    /\ storage = NoObjects

\* one call of searchJobs, to its return or its throw
SearchJobs(r) ==
    /\ run[r].pc = "call"
    /\ LET rec == run[r]
           served == IF rec.fault.kind = "body" THEN WithErrorAt(rec.pages, rec.fault.at)
                     ELSE rec.pages
           res == searchJobs(served, rec.fault.kind = "key",
                             IF rec.fault.kind = "status" THEN rec.fault.at ELSE 0)
       IN  run' = [run EXCEPT ![r] =
              [rec EXCEPT !.ret = res, !.pc = IF res.ok THEN "returned" ELSE "thrown"]]
    /\ UNCHANGED <<job_listings, env, faults, storage>>

NextSearch == SearchJobs(1)

SpecSearch == InitSearch /\ [][NextSearch]_vars

\* ------------------------------------------------------------------------
\* Run-log storage: PipelineLogger.persist and PipelineLogger.pruneOldLogs
\* over the bucket "pipeline-logs", called by the cron route and by
\* POST /api/jobs/search
\* ------------------------------------------------------------------------
RETENTION_DAYS == 14

\* the listing of pruneOldLogs asks for at most this many objects
LIST_LIMIT == 100

\* the first today of a behaviour, and how many midnights may pass
StartDay == 136

MaxMidnights == 1

\* loggers created in one behaviour
MaxSections == 3

\* UTF-16 code units of the characters of object names
CodeOf(c) ==
    CASE c = "-" -> 45 [] c = "." -> 46
      [] c = "0" -> 48 [] c = "1" -> 49 [] c = "2" -> 50 [] c = "3" -> 51 [] c = "4" -> 52
      [] c = "5" -> 53 [] c = "6" -> 54 [] c = "7" -> 55 [] c = "8" -> 56 [] c = "9" -> 57
      [] c = "d" -> 100 [] c = "e" -> 101 [] c = "k" -> 107 [] c = "m" -> 109
      [] c = "p" -> 112

\* a < b on JavaScript strings: by code unit, a proper prefix is smaller
RECURSIVE StrLess(_, _)
StrLess(a, b) ==
    IF Len(b) = 0 THEN FALSE
    ELSE IF Len(a) = 0 THEN TRUE
    ELSE IF CodeOf(a[1]) # CodeOf(b[1]) THEN CodeOf(a[1]) < CodeOf(b[1])
    ELSE StrLess(Tail(a), Tail(b))

endsWith(s, suffix) ==
    Len(s) >= Len(suffix) /\ SubSeq(s, Len(s) - Len(suffix) + 1, Len(s)) = suffix

\* the calendar from 2025-09-01 (day 0) to 2026-02-28
Months ==
    << [y |-> <<"2", "0", "2", "5">>, m |-> <<"0", "9">>, days |-> 30],
       [y |-> <<"2", "0", "2", "5">>, m |-> <<"1", "0">>, days |-> 31],
       [y |-> <<"2", "0", "2", "5">>, m |-> <<"1", "1">>, days |-> 30],
       [y |-> <<"2", "0", "2", "5">>, m |-> <<"1", "2">>, days |-> 31],
       [y |-> <<"2", "0", "2", "6">>, m |-> <<"0", "1">>, days |-> 31],
       [y |-> <<"2", "0", "2", "6">>, m |-> <<"0", "2">>, days |-> 28] >>

Digit(d) == <<"0", "1", "2", "3", "4", "5", "6", "7", "8", "9">>[d + 1]

RECURSIVE DateOf(_, _)
DateOf(day, k) ==
    IF day < Months[k].days THEN [y |-> Months[k].y, m |-> Months[k].m, d |-> day + 1]
    ELSE DateOf(day - Months[k].days, k + 1)

\* date.toISOString().split("T")[0]
toISODate(day) ==
    LET c == DateOf(day, 1)
    IN  c.y \o <<"-">> \o c.m \o <<"-">> \o <<Digit(c.d \div 10), Digit(c.d % 10)>>

Md == <<".", "m", "d">>

filePathOf(day) == toISODate(day) \o Md

\* a logger: its run heading and the number of its entries
Logger(id, entries) == [id |-> id, entries |-> entries]

toMarkdown(logger) ==
    <<"## Search Run", <<"S0", "S1", "S2", "S3", "S4", "S5">>[logger.id + 1]>>

Header(day) == <<"# Pipeline Logs">> \o toISODate(day)

fullContent(existingContent, day, newContent) ==
    LET header == IF Len(existingContent) > 0 THEN existingContent ELSE Header(day)
    IN  header \o <<"---">> \o newContent

\* what storage.list returns: the first LIST_LIMIT names in ascending order
listed(objects) ==
    {n \in DOMAIN objects : Cardinality({o \in DOMAIN objects : StrLess(o, n)}) < LIST_LIMIT}

toDeleteOf(files, today) ==
    LET cutoffStr == toISODate(today - RETENTION_DAYS)
    IN  {n \in files : endsWith(n, Md) /\ StrLess(n, cutoffStr \o Md)}

Without(objects, names) == [n \in DOMAIN objects \ names |-> objects[n]]

Upserted(objects, name, content) ==
    [n \in DOMAIN objects \cup {name} |-> IF n = name THEN content ELSE objects[n]]

\* the locals of one caller: the cron route prunes, then persists the log of
\* its search; the manual route persists only
LoggerCall(kind, logger) ==
    [pc |-> IF kind = "cron" THEN "prune" ELSE "persist", kind |-> kind, logger |-> logger,
     today |-> 0, filePath |-> <<>>, existingContent |-> <<>>,
     toDelete |-> {}, cutoff |-> 0, prunedCount |-> 0, pruneFailed |-> FALSE,
     downloadFailed |-> FALSE, uploaded |-> FALSE, overlapped |-> FALSE]

Keep == <<".", "k", "e", "e", "p">>

ReportOn(day) == Header(day) \o <<"---">> \o toMarkdown(Logger(0, 1))

Cutoff0 == StartDay - RETENTION_DAYS

\* report days around the first cutoff, and a backlog of LIST_LIMIT + 1
\* reports that are all older than it
NearDays == {Cutoff0 - 1, Cutoff0, StartDay}

Backlog == (Cutoff0 - LIST_LIMIT - 2)..(Cutoff0 - 2)

Bucket(days, keep) ==
    [n \in {filePathOf(d) : d \in days} \cup (IF keep THEN {Keep} ELSE {}) |->
        IF n = Keep THEN <<"x">>
        ELSE ReportOn(CHOOSE d \in days : filePathOf(d) = n)]

InitLogs ==
    /\ storage \in {Bucket(days, keep) : days \in SUBSET NearDays, keep \in BOOLEAN}
                     \cup {Bucket(Backlog \cup {Cutoff0 - 1}, FALSE)}
    /\ env = [world |-> "logs", apiKey |-> TRUE, rich |-> FALSE,
              today |-> StartDay, loggers |-> 2]
    /\ \E kind \in {"cron", "manual"}, entries \in 0..1 :
          run = [r \in Runs |->
                   IF r = 1 THEN LoggerCall(kind, Logger(r, 1))
                   ELSE LoggerCall("manual", Logger(r, entries))]
    /\ job_listings = {}
    /\ faults = 0

PruneList(r) ==
    /\ run[r].pc = "prune"
    /\ \E listFails \in BOOLEAN :
         LET rec == run[r]
             toDelete == toDeleteOf(listed(storage), env.today)
         IN  /\ listFails => faults < MaxFaults
             /\ faults' = IF listFails THEN faults + 1 ELSE faults
             /\ run' = [run EXCEPT ![r] =
                    IF listFails
                    THEN [rec EXCEPT !.prunedCount = 0, !.pruneFailed = TRUE, !.pc = "persist"]
                    ELSE IF toDelete = {}
                    THEN [rec EXCEPT !.prunedCount = 0, !.cutoff = env.today - RETENTION_DAYS,
                                     !.pc = "persist"]
                    ELSE [rec EXCEPT !.toDelete = toDelete,
                                     !.cutoff = env.today - RETENTION_DAYS, !.pc = "remove"]]
    /\ UNCHANGED <<job_listings, env, storage>>

PruneRemove(r) ==
    /\ run[r].pc = "remove"
    /\ \E deleteError \in BOOLEAN :
         LET rec == run[r]
         IN  /\ deleteError => faults < MaxFaults
             /\ faults' = IF deleteError THEN faults + 1 ELSE faults
             /\ storage' = IF deleteError THEN storage ELSE Without(storage, rec.toDelete)
             /\ run' = [run EXCEPT ![r] =
                    IF deleteError
                    THEN [rec EXCEPT !.prunedCount = 0, !.pruneFailed = TRUE, !.pc = "persist"]
                    ELSE [rec EXCEPT !.prunedCount = Cardinality(rec.toDelete),
                                     !.pc = "persist"]]
    /\ UNCHANGED <<job_listings, env>>

\* another caller is between its download and its upload
Uploading(r) == {o \in Runs \ {r} : run[o].pc = "upload"}

PersistDownload(r) ==
    /\ run[r].pc = "persist"
    /\ \E downloadFails \in BOOLEAN :
         LET rec == run[r]
             filePath == filePathOf(env.today)
             existingFile == filePath \in DOMAIN storage /\ ~downloadFails
             existingContent == IF existingFile THEN storage[filePath] ELSE <<>>
         IN  /\ downloadFails => (faults < MaxFaults /\ filePath \in DOMAIN storage
                                  /\ rec.logger.entries > 0)
             /\ faults' = IF downloadFails THEN faults + 1 ELSE faults
             /\ run' = [o \in Runs |->
                    IF o = r
                    THEN IF rec.logger.entries = 0 THEN [rec EXCEPT !.pc = "returned"]
                         ELSE [rec EXCEPT !.today = env.today, !.filePath = filePath,
                                          !.existingContent = existingContent,
                                          !.downloadFailed = downloadFails,
                                          !.overlapped = Uploading(r) # {},
                                          !.pc = "upload"]
                    ELSE IF o \in Uploading(r) /\ rec.logger.entries > 0
                    THEN [run[o] EXCEPT !.overlapped = TRUE]
                    ELSE run[o]]
    /\ UNCHANGED <<job_listings, env, storage>>

PersistUpload(r) ==
    /\ run[r].pc = "upload"
    /\ \E error \in BOOLEAN :
         LET rec == run[r]
             newContent == toMarkdown(rec.logger)
         IN  /\ error => faults < MaxFaults
             /\ faults' = IF error THEN faults + 1 ELSE faults
             /\ storage' = IF error THEN storage
                           ELSE Upserted(storage, rec.filePath,
                                         fullContent(rec.existingContent, rec.today, newContent))
             /\ run' = [run EXCEPT ![r] = [rec EXCEPT !.uploaded = ~error, !.pc = "returned"]]
    /\ UNCHANGED <<job_listings, env>>

\* the route is requested again: a new logger for a new search
NewLogger(r) ==
    /\ run[r].pc = "returned"
    /\ env.loggers < MaxSections
    /\ run' = [run EXCEPT ![r] = LoggerCall("manual", Logger(env.loggers + 1, 1))]
    /\ env' = [env EXCEPT !.loggers = @ + 1]
    /\ UNCHANGED <<job_listings, faults, storage>>

Midnight ==
    /\ env.today < StartDay + MaxMidnights
    /\ env' = [env EXCEPT !.today = @ + 1]
    /\ UNCHANGED <<run, job_listings, faults, storage>>

NextLogs ==
    \/ \E r \in Runs : \/ PruneList(r)
                       \/ PruneRemove(r)
                       \/ PersistDownload(r)
                       \/ PersistUpload(r)
                       \/ NewLogger(r)
    \/ Midnight

SpecLogs == InitLogs /\ [][NextLogs]_vars

\* ------------------------------------------------------------------------
\* Properties
\* ------------------------------------------------------------------------
\* results that belong to upstream call j of a run (calls are made in
\* order, each batch call covers BATCH_SIZE positions but the last)
FirstPos(rec, j) == IF rec.upstream[j].path = "single" THEN 1 ELSE (j - 1) * BATCH_SIZE + 1

ResultOf(rec, j, k) == rec.matchResults[FirstPos(rec, j) + k - 1]

IsFailure(out) ==
    \/ out.kind = "reject"
    \/ out.kind = "timeout"
    \/ out.kind = "resolve" /\ \A i \in 1..Len(out.text) : out.text[i].t # "json"

IsDefaulted(res) == res.score = Num(50) /\ Contains(res.reasoning, "defaulted")

\* C1: whenever the upstream call of the single-candidate path rejects,
\* loses the race to the timer, or answers with text that is not JSON,
\* scoreJobMatch still returns, with score 50 and a reasoning containing
\* "defaulted"
C1_SingleFailureDefaults ==
    \A r \in Runs : \A j \in 1..Len(run[r].upstream) :
        LET call == run[r].upstream[j] IN
        (call.path = "single" /\ IsFailure(call.out)) =>
            /\ run[r].pc = "insert"
            /\ Len(run[r].matchResults) = 1
            /\ IsDefaulted(run[r].matchResults[1])

C1_Witness ==
    \E j \in 1..Len(run[1].upstream) :
        /\ run[1].upstream[j].path = "single"
        /\ run[1].upstream[j].out.kind = "timeout"
        /\ IsDefaulted(run[1].matchResults[1])

\* C2: every score returned by the scorer and every match_score handed to
\* insert is an integer in 0..100, whatever the upstream answered
C2_ScoreIsIntegerInRange ==
    \A r \in Runs :
        /\ \A k \in 1..Len(run[r].matchResults) :
              ~run[r].matchResults[k].score.nan /\ run[r].matchResults[k].score.v \in 0..100
        /\ \A k \in 1..Len(run[r].attempts) :
              ~run[r].attempts[k].row.match_score.nan
              /\ run[r].attempts[k].row.match_score.v \in 0..100

\* insert attempts of a run for one resume, in order
AttemptsFor(rec, resumeId) == SelectSeq(rec.attempts, LAMBDA a : a.row.resume_id = resumeId)

\* listings a run sent to the scorer for one resume, in order
RECURSIVE SentAll(_, _)
SentAll(upstream, j) == IF j > Len(upstream) THEN <<>> ELSE upstream[j].sent \o SentAll(upstream, j + 1)

SentFor(rec, resumeId) == SelectSeq(SentAll(rec.upstream, 1), LAMBDA x : x.resume_id = resumeId)

\* the resume whose accumulators the run currently holds (0: none yet)
HeldProfile(rec) ==
    CASE rec.pc \in {"query", "score", "delay", "insert", "done"} -> rec.p
      [] rec.pc = "profile" -> rec.p - 1
      [] OTHER -> 0

\* attempt k of the held resume is candidate k with the result of position k
OwnAttempt(rec, k) ==
    LET a == AttemptsFor(rec, rec.resumes[HeldProfile(rec)].id)[k]
        cand == rec.acc.candidates[k].normalized
    IN  /\ a.row.url = cand.url
        /\ a.row.title = cand.title
        /\ a.row.match_score = rec.matchResults[k].score
        /\ a.row.match_reasoning = rec.matchResults[k].reasoning
        /\ a.row.match_reasoning \in {DefaultReasoning, About(cand.title)}

\* C3: every candidate that survives filtering gets exactly one insert
\* attempt, carrying the result the scorer produced for its position,
\* whatever the outcome of each scoring call
C3_EveryCandidateInserted ==
    \A r \in Runs :
        LET rec == run[r]
            h == HeldProfile(rec)
            n == Len(rec.acc.candidates)
        IN  (h >= 1 /\ n > 0) =>
              LET done == Len(AttemptsFor(rec, rec.resumes[h].id)) IN
              /\ rec.pc \in {"query", "score", "delay"} => done = 0
              /\ rec.pc = "insert" => (done = rec.i - 1 /\ Len(rec.matchResults) = n)
              /\ rec.pc \in {"profile", "done"} => done = n
              /\ \A k \in 1..done : OwnAttempt(rec, k)

C3_Witness ==
    /\ run[1].pc = "done"
    /\ Len(run[1].acc.candidates) = 6
    /\ Len(run[1].attempts) = 6
    /\ run[1].upstream[1].out.kind = "timeout"
    /\ \E k \in 1..Len(run[1].attempts) : ~IsDefaulted(run[1].matchResults[k])

IsArrayAnswer(call) ==
    /\ call.path = "batch"
    /\ call.out.kind = "resolve"
    /\ ParseOk(StripFences(call.out.text))
    /\ ParseValue(StripFences(call.out.text)).type = "array"

WrongLength(call) ==
    IsArrayAnswer(call) /\ Len(ParseValue(StripFences(call.out.text)).items) # Len(call.sent)

ItemsOf(call) == ParseValue(StripFences(call.out.text)).items

\* C5 as claimed: after an array of the wrong length every candidate of
\* the batch has score 50 and a defaulted reasoning
C5_WrongLengthAllDefaulted ==
    \A j \in 1..Len(run[1].upstream) :
        WrongLength(run[1].upstream[j]) =>
            \A k \in 1..Len(run[1].upstream[j].sent) : IsDefaulted(ResultOf(run[1], j, k))

\* the score a numeric entry stands for: nearest integer, kept in 0..100
Expected(t) == IF t >= 1000 THEN 100 ELSE IF t <= 0 THEN 0 ELSE (t + 5) \div 10

\* C5 amended: after an array of the wrong length a candidate whose
\* position has no entry, or a null entry, gets score 50 and a defaulted
\* reasoning; a candidate whose position has an entry with a numeric score
\* gets that score, rounded and clamped, and the entry's reasoning when it
\* is not empty
C5_WrongLengthPerEntry ==
    \A j \in 1..Len(run[1].upstream) :
        LET call == run[1].upstream[j] IN
        WrongLength(call) =>
            \A k \in 1..Len(call.sent) :
                LET res == ResultOf(run[1], j, k) IN
                IF k > Len(ItemsOf(call)) \/ ItemsOf(call)[k].type = "null"
                THEN IsDefaulted(res)
                ELSE LET e == ItemsOf(call)[k] IN
                     /\ e.score.k = "num" => res.score = Num(Expected(e.score.t))
                     /\ e.score.k \in {"absent", "null"} => res.score = Num(50)
                     /\ e.reasoning \notin {<<>>, UndefinedR} => res.reasoning = e.reasoning
                     /\ e.reasoning \in {<<>>, UndefinedR} => res.reasoning = DefaultReasoning

C5_Witness ==
    \E j \in 1..Len(run[1].upstream) :
        /\ WrongLength(run[1].upstream[j])
        /\ Len(ItemsOf(run[1].upstream[j])) = 1
        /\ Len(run[1].upstream[j].sent) = 2
        /\ ResultOf(run[1], j, 1).score = Num(73)
        /\ IsDefaulted(ResultOf(run[1], j, 2))

\* every listing the search service can return
RECURSIVE JobsOfPages(_, _)
JobsOfPages(pages, k) ==
    IF k > Len(pages) THEN {}
    ELSE {pages[k].jobs_results[x] : x \in 1..Len(pages[k].jobs_results)} \cup JobsOfPages(pages, k + 1)

ServiceJobs ==
    UNION {JobsOfPages(ServicePages(<<w>>), 1) : w \in {"Engineer", "Developer", "software", "Analyst"}}

NoLinks(job) ==
    /\ \A k \in 1..Len(job.apply_options) : k = 1 => job.apply_options[k] \in {"", Undef}
    /\ job.share_link \in {"", Undef}

\* C6: a listing without apply link and share link normalizes to a null
\* url, and no listing with a null url is a candidate, is sent to the
\* scorer or is handed to insert
C6_NullUrlNeverScored ==
    /\ \A job \in ServiceJobs : NoLinks(job) => normalizeJob(job, "r1").url = Null
    /\ \A r \in Runs :
          /\ \A k \in 1..Len(run[r].acc.candidates) :
                ~NoLinks(CHOOSE job \in ServiceJobs : job.title = run[r].acc.candidates[k].normalized.title)
                /\ run[r].acc.candidates[k].normalized.url \notin {Null, Undef, ""}
          /\ \A j \in 1..Len(run[r].upstream) : \A k \in 1..Len(run[r].upstream[j].sent) :
                run[r].upstream[j].sent[k].url \notin {Null, Undef, ""}
          /\ \A k \in 1..Len(run[r].attempts) : run[r].attempts[k].row.url \notin {Null, Undef, ""}

C6_Witness ==
    /\ run[1].acc.skippedNoUrl = 1
    /\ run[1].pc = "insert"
    /\ run[1].serpApiResults = 7
    /\ Len(run[1].acc.candidates) = 2

UrlsOf(seq) == {seq[k].url : k \in 1..Len(seq)}

Distinct(seq) == \A a, b \in 1..Len(seq) : seq[a].url = seq[b].url => a = b

CandidateUrls(rec) == {rec.acc.candidates[k].normalized.url : k \in 1..Len(rec.acc.candidates)}

\* the candidates a step adds to the held resume's list
Added(r) ==
    IF run'[r].p = run[r].p /\ Len(run'[r].acc.candidates) > Len(run[r].acc.candidates)
    THEN {run'[r].acc.candidates[k].normalized.url :
             k \in (Len(run[r].acc.candidates) + 1)..Len(run'[r].acc.candidates)}
    ELSE {}

\* C7: within one run and one resume a url is accepted at most once: no
\* accepted url was reported as persisted by a lookup of this resume or
\* accepted before, so per resume no url is sent to the scorer twice or
\* handed to insert twice
C7_UrlAcceptedOnce ==
    /\ [](\A r \in Runs :
            /\ Cardinality(CandidateUrls(run[r])) = Len(run[r].acc.candidates)
            /\ CandidateUrls(run[r]) \subseteq run[r].acc.existingUrls
            /\ \A h \in 1..Len(run[r].resumes) :
                  /\ Distinct(SentFor(run[r], run[r].resumes[h].id))
                  /\ Distinct([k \in 1..Len(AttemptsFor(run[r], run[r].resumes[h].id)) |->
                                  AttemptsFor(run[r], run[r].resumes[h].id)[k].row]))
    /\ [][\A r \in Runs :
            /\ Added(r) \cap run'[r].reported = {}
            /\ Added(r) \cap CandidateUrls(run[r]) = {}
            /\ Added(r) \cap run[r].acc.existingUrls = {}]_vars

\* a later query of the same resume returned a listing whose url had been
\* accepted from an earlier query, and a lookup reported a persisted url
C7_Witness ==
    /\ run[1].pc = "score"
    /\ run[1].acc.skippedDuplicate = 3
    /\ run[1].reported = {"u3"}
    /\ CandidateUrls(run[1]) = {"u1", "u2"}

\* C8 as claimed: a run that starts after another run has finished neither
\* sends to the scorer nor hands to insert a url that was persisted when it
\* started, also when the existence lookup fails
C8_SecondRunSkipsPersisted ==
    \A r \in Runs :
        run[r].sequel =>
            /\ UrlsOf(SentAll(run[r].upstream, 1)) \cap run[r].startUrls = {}
            /\ {run[r].attempts[k].row.url : k \in 1..Len(run[r].attempts)} \cap run[r].startUrls = {}

RowsAddedBy(r) == {row \in job_listings : row.id[1] = r}

OkAttempts(rec) == SelectSeq(rec.attempts, LAMBDA a : a.ok)

InsertErrorsLogged(rec) ==
    SelectSeq(rec.log, LAMBDA e : e.level = "error" /\ e.category = "insert")

\* C9: whatever the interleaving of two runs, job_listings never holds two
\* rows with the same non-null url; an insert that loses to the unique
\* index is counted as an insert error and not as a new job, so the new
\* jobs counted by the runs are exactly the rows added
C9_UniqueUrlAndCounts ==
    /\ \A a, b \in job_listings : (a.url # Null /\ a.url = b.url) => a = b
    /\ \A r \in Runs :
          /\ run[r].totalNewJobs = Cardinality(RowsAddedBy(r))
          /\ run[r].totalNewJobs = Len(OkAttempts(run[r]))
          /\ Len(run[r].attempts) - Len(OkAttempts(run[r])) = Len(InsertErrorsLogged(run[r]))
          /\ (run[r].pc = "done" /\ Len(run[r].resumes) > 0) =>
                run[r].result.new_jobs_found = Cardinality(RowsAddedBy(r))
    /\ run[1].totalNewJobs + run[2].totalNewJobs
          = Cardinality({row \in job_listings : row.id[1] \in Runs})

\* both runs accepted u2 before either inserted it; one insert lost
C9_Witness ==
    /\ faults = 0
    /\ storage = NoObjects
    /\ run[1].pc = "done" /\ run[2].pc = "done"
    /\ "u2" \notin run[1].startUrls \cup run[2].startUrls
    /\ \E k \in 1..Len(run[1].attempts) : run[1].attempts[k].row.url = "u2" /\ ~run[1].attempts[k].ok
    /\ \E k \in 1..Len(run[2].attempts) : run[2].attempts[k].row.url = "u2" /\ run[2].attempts[k].ok
    /\ run[1].result.new_jobs_found + run[2].result.new_jobs_found < 4

SearchErrors(rec) == SelectSeq(rec.log, LAMBDA e : e.level = "error" /\ e.category = "serpapi")

QueriesLogged(rec) == SelectSeq(rec.log, LAMBDA e : e.what = "Query")

SearchResults(rec) == SelectSeq(rec.log, LAMBDA e : e.level = "info" /\ e.category = "serpapi")

FailedSearches(rec) == SelectSeq(rec.searches, LAMBDA x : ~x.ok)

\* the calls of searchJobs a run made for its resume number h
SearchesOf(rec, h) == SelectSeq(rec.searches, LAMBDA x : x.p = h)

\* queries of the held resume whose turn has passed
QueriesTried(rec) == IF rec.pc = "query" THEN rec.q - 1 ELSE Len(rec.queries)

\* a listing no filter of the resume drops, whatever the known urls
PassesFilters(job, filters, resumeId) ==
    /\ ~isExcluded(job, filters)
    /\ normalizeJob(job, resumeId).url # Null
    /\ filters.remote_preference = "remote" => normalizeJob(job, resumeId).is_remote

\* what the service returns for a query when no request fails
ListingsOf(queryStr) == searchJobs(ServicePages(queryStr), FALSE, 0).jobs

\* C11: a failed fetch for one query (non-success status or error body) is
\* caught and leaves one error entry in the run log; the remaining queries
\* of the resume are still tried, in order; and every listing of a query
\* that succeeded and passes the filters is a candidate or was reported as
\* persisted, every candidate being scored and handed to insert
C11_FailedQueryIsolated ==
    \A r \in Runs :
        LET rec == run[r]
            h == HeldProfile(rec)
        IN  /\ Len(FailedSearches(rec)) = Len(SearchErrors(rec))
            /\ Len(rec.searches) - Len(FailedSearches(rec)) = Len(SearchResults(rec))
            /\ h >= 1 =>
                  LET mine == SearchesOf(rec, h)
                      id == rec.resumes[h].id
                  IN  /\ Len(mine) = QueriesTried(rec)
                      /\ \A k \in 1..Len(mine) : mine[k].query = rec.queries[k]
                      /\ \A k \in 1..Len(mine) : mine[k].ok =>
                            \A x \in 1..Len(ListingsOf(mine[k].query)) :
                                LET job == ListingsOf(mine[k].query)[x] IN
                                PassesFilters(job, rec.searchFilters, id) =>
                                    normalizeJob(job, id).url \in CandidateUrls(rec) \cup rec.reported
                      /\ rec.pc \in {"profile", "done"} =>
                            /\ UrlsOf(SentFor(rec, id)) = CandidateUrls(rec)
                            /\ {AttemptsFor(rec, id)[k].row.url : k \in 1..Len(AttemptsFor(rec, id))}
                                   = CandidateUrls(rec)

\* the first query of r1 failed with an error body, its second query
\* succeeded and its listing u2 was inserted; the query of r2 then failed
\* with a non-success status
C11_Witness ==
    /\ run[1].pc = "done"
    /\ Len(run[1].searches) = 3
    /\ ~run[1].searches[1].ok /\ run[1].searches[1].error = "SerpAPI error"
    /\ run[1].searches[2].ok /\ run[1].searches[2].p = 1
    /\ ~run[1].searches[3].ok /\ run[1].searches[3].error = "SerpAPI request failed"
    /\ \E k \in 1..Len(run[1].attempts) :
          /\ run[1].attempts[k].ok
          /\ run[1].attempts[k].row.url = "u2"
          /\ run[1].attempts[k].row.resume_id = "r1"

SetupErrors(rec) == SelectSeq(rec.log, LAMBDA e : e.level = "error" /\ e.category = "setup")

\* C12: a run whose resumes query failed has thrown: it returned no
\* result, built no query, sent no search request, made no scoring call,
\* attempted no insert and added no row, and it never does
C12_LoadFailureAborts ==
    \A r \in Runs :
        Len(SetupErrors(run[r])) > 0 =>
            /\ run[r].pc = "thrown"
            /\ run[r].resumes = <<>> /\ run[r].queries = <<>>
            /\ Len(QueriesLogged(run[r])) = 0
            /\ run[r].requests = 0 /\ run[r].searches = <<>>
            /\ run[r].upstream = <<>>
            /\ run[r].attempts = <<>>
            /\ RowsAddedBy(r) = {}
            /\ Len(run[r].log) = 1

\* the first run threw while the other run went on and added rows
C12_Witness ==
    /\ run[1].pc = "thrown"
    /\ Len(SetupErrors(run[1])) = 1
    /\ run[2].pc = "done"
    /\ RowsAddedBy(2) # {}

FailedAttempts(seq) == SelectSeq(seq, LAMBDA a : ~a.ok)

\* the active resumes the run's scope selects
Loaded(rec) ==
    SelectSeq(ResumesTable(env.world), LAMBDA row : rec.resumeId = Undef \/ row.id = rec.resumeId)

\* C13: a failed insert is logged and counted and the loop goes on: in
\* the insert loop candidate i is next whatever the outcomes before it,
\* after the loop every candidate of the resume has its attempt; the run
\* returns the number of successful attempts over all resumes as
\* new_jobs_found and the number of resumes loaded as resumes_searched
C13_InsertFailureCounted ==
    \A r \in Runs :
        LET rec == run[r]
            h == HeldProfile(rec)
        IN  /\ Len(FailedAttempts(rec.attempts)) = Len(InsertErrorsLogged(rec))
            /\ rec.totalNewJobs = Len(OkAttempts(rec))
            /\ h >= 1 =>
                  LET mine == AttemptsFor(rec, rec.resumes[h].id) IN
                  /\ rec.pc = "insert" =>
                        /\ Len(mine) = rec.i - 1
                        /\ rec.insertErrors = Len(FailedAttempts(mine))
                  /\ rec.pc \in {"profile", "done"} =>
                        /\ Len(mine) = Len(rec.acc.candidates)
                        /\ Len(rec.acc.candidates) > 0 => rec.insertErrors = Len(FailedAttempts(mine))
            /\ rec.pc = "done" =>
                  /\ rec.result.new_jobs_found = Len(OkAttempts(rec))
                  /\ rec.result.resumes_searched = Len(Loaded(rec))

\* the second of six inserts failed, the four after it were attempted
\* and succeeded
C13_Witness ==
    /\ run[1].pc = "done"
    /\ Len(run[1].attempts) = 6
    /\ ~run[1].attempts[2].ok
    /\ \A k \in 3..6 : run[1].attempts[k].ok
    /\ run[1].result = [new_jobs_found |-> 5, resumes_searched |-> 1]

\* the non-fatal errors of a kind that occurred in a run, and the error
\* entries of the run log in the categories that report the kind
FailuresOf(rec, kind) == SelectSeq(rec.failures, LAMBDA k : k = kind)

CategoriesOf(kind) ==
    CASE kind = "search" -> {"serpapi"}
      [] kind \in {"scoring_batch", "scoring_single"} -> {"scoring"}
      [] kind = "insert" -> {"insert"}
      [] kind = "filter_lookup" -> {"setup", "queries"}
      [] OTHER -> {"filtering"}

ErrorsAbout(rec, kind) ==
    SelectSeq(rec.log, LAMBDA e : e.level = "error" /\ e.category \in CategoriesOf(kind))

ErrorKinds == {"search", "scoring_batch", "scoring_single", "insert", "filter_lookup", "url_lookup"}

\* C14 as claimed: every non-fatal error that occurred in a run (search,
\* batch scoring, single scoring, insert, filter lookup, url lookup) has
\* an error entry in the run log
C14_EveryErrorLogged ==
    \A r \in Runs : \A kind \in ErrorKinds :
        LET both == IF kind \in {"scoring_batch", "scoring_single"}
                    THEN Len(FailuresOf(run[r], "scoring_batch")) + Len(FailuresOf(run[r], "scoring_single"))
                    ELSE Len(FailuresOf(run[r], kind))
        IN  both <= Len(ErrorsAbout(run[r], kind))

StartsWith(s, prefix) == Len(s) >= Len(prefix) /\ SubSeq(s, 1, Len(prefix)) = prefix

Built(rec) == rec.pc \in {"queries", "again", "params"}

\* C15: buildSearchQueries returns between 1 and 4 queries, the same on
\* a second call with the same inputs; for a profile with job titles it
\* returns one query per title for the first 4 titles, in profile order,
\* each starting with its title, so 5 or more titles give exactly 4
C15_OneQueryPerTitle ==
    LET rec == run[1] IN
    Built(rec) =>
        LET titles == rec.parsed.job_titles IN
        /\ Len(rec.queries) \in 1..4
        /\ rec.pc = "again" => rec.queries = rec.previous
        /\ Len(titles) >= 1 =>
              /\ Len(rec.queries) = Min(4, Len(titles))
              /\ \A i \in 1..Len(rec.queries) : StartsWith(rec.queries[i], titles[i])
        /\ Len(titles) >= 5 => Len(rec.queries) = 4

C15_Witness ==
    /\ run[1].pc = "again"
    /\ run[1].builder = "part_013"
    /\ Len(run[1].parsed.job_titles) = 5
    /\ run[1].queries = << <<"Software", "Engineer", "mid", "level">>, <<"Developer", "mid", "level">>,
                           <<"Architect", "mid", "level">>, <<"D", "mid", "level">> >>

\* C16 as claimed: without job titles the queries are "<skill> jobs" for
\* each of the first 3 skills, in order (followed by nothing when
\* target_seniority is any), and exactly "software developer" when the
\* profile has no skills either
C16_SkillFallback ==
    LET rec == run[1] IN
    (Built(rec) /\ Len(rec.parsed.job_titles) = 0) =>
        LET skills == rec.parsed.skills
            any == rec.filters.target_seniority = "any"
        IN  /\ Len(skills) > 0 =>
                  /\ Len(rec.queries) = Min(3, Len(skills))
                  /\ \A i \in 1..Len(rec.queries) :
                        /\ StartsWith(rec.queries[i], skills[i] \o <<"jobs">>)
                        /\ any => rec.queries[i] = skills[i] \o <<"jobs">>
            /\ Len(skills) = 0 =>
                  /\ Len(rec.queries) = 1
                  /\ StartsWith(rec.queries[1], <<"software", "developer">>)
                  /\ any => rec.queries = << <<"software", "developer">> >>

\* the query list the claim expects before the qualifier is appended
BaseQueries(parsed) ==
    IF Len(parsed.job_titles) > 0 THEN SubSeq(parsed.job_titles, 1, Min(4, Len(parsed.job_titles)))
    ELSE IF Len(parsed.skills) > 0
    THEN [i \in 1..Min(3, Len(parsed.skills)) |-> parsed.skills[i] \o <<"jobs">>]
    ELSE << <<"software", "developer">> >>

Qualifier(sen) ==
    CASE sen = "entry" -> <<"entry", "level", "OR", "junior">>
      [] sen = "mid" -> <<"mid", "level">>
      [] sen = "senior" -> <<"senior">>

BuilderOf(rec, parsed, filters) ==
    IF rec.builder = "part_013" THEN buildSearchQueries(parsed, filters)
    ELSE buildSearchQueriesKeyworded(parsed, filters)

\* C18 as claimed: the queries returned are those returned for the same
\* profile and the same filter with an empty keyword list
C18_KeywordsIgnored ==
    LET rec == run[1] IN
    Built(rec) =>
        rec.queries = BuilderOf(rec, rec.parsed, [rec.filters EXCEPT !.keywords = <<>>])

\* the supported listing-age buckets, in days, and the days a chip covers
Buckets == {1, 3, 7, 14, 30}

ChipOf(bucket) ==
    CASE bucket = 1 -> "date_posted:today"
      [] bucket = 3 -> "date_posted:3days"
      [] bucket = 7 -> "date_posted:week"
      [] bucket \in {14, 30} -> "date_posted:month"

ChipDays(chip) ==
    CASE chip = "date_posted:today" -> 1
      [] chip = "date_posted:3days" -> 3
      [] chip = "date_posted:week" -> 7
      [] chip = "date_posted:month" -> 30

\* C19: for a listing age of at least 1 day buildSerpApiParams sets the
\* chip of the smallest bucket among 1, 3, 7, 14, 30 that is not below the
\* age, and the chip of bucket 30 when the age exceeds 30; 1 gives today,
\* 5 week and 20 month, and for ages 1..30 the chip covers at least the
\* requested number of days
C19_SmallestBucketChip ==
    LET rec == run[1]
        age == rec.filters.max_listing_age_days
    IN  (rec.pc = "params" /\ age >= 1) =>
          /\ rec.params.engine = "google_jobs"
          /\ age <= 30 =>
                /\ \E b \in Buckets :
                      /\ b >= age
                      /\ \A c \in Buckets : c >= age => b <= c
                      /\ rec.params.chips = ChipOf(b)
                /\ ChipDays(rec.params.chips) >= age
          /\ age > 30 => rec.params.chips = ChipOf(30)
          /\ age = 1 => rec.params.chips = "date_posted:today"
          /\ age = 5 => rec.params.chips = "date_posted:week"
          /\ age = 20 => rec.params.chips = "date_posted:month"

\* an age between two buckets
C19_Witness ==
    /\ run[1].pc = "params"
    /\ run[1].filters.max_listing_age_days = 2
    /\ run[1].params.chips = "date_posted:3days"
    /\ run[1].params.q = <<"Developer", "senior">>

\* a page after which the client has nothing more to ask for
LastPage(page) == Len(page.jobs_results) = 0 \/ page.next_page_token \in {Undef, ""}

RECURSIVE Concat(_, _)
Concat(pages, n) == IF n = 0 THEN <<>> ELSE Concat(pages, n - 1) \o pages[n].jobs_results

\* C20: one call of searchJobs sends at most 3 requests; the first
\* without a pagination token, each later one with the token of the page
\* before it; a call that returns stopped after the first page with zero
\* results or without a token (after the third page at the latest), and
\* returns the listings of the fetched pages in page order
C20_PagesFollowTokens ==
    LET rec == run[1]
        ret == rec.ret
    IN  rec.pc \in {"returned", "thrown"} =>
          /\ ret.requests <= 3
          /\ Len(ret.tokens) = ret.requests
          /\ \A k \in 1..ret.requests :
                IF k = 1 THEN ret.tokens[k] = Undef
                ELSE ret.tokens[k] = rec.pages[k - 1].next_page_token /\ ret.tokens[k] = Tok(k - 1)
          /\ rec.pc = "returned" =>
                /\ ret.requests >= 1
                /\ \A k \in 1..(ret.requests - 1) : ~LastPage(rec.pages[k])
                /\ ret.requests < 3 => LastPage(rec.pages[ret.requests])
                /\ ret.jobs = Concat(rec.pages, ret.requests)

\* three pages fetched although the third has listings and a token
C20_Witness ==
    /\ run[1].pc = "returned"
    /\ run[1].ret.requests = 3
    /\ run[1].ret.tokens = <<Undef, "t1", "t2">>
    /\ ~LastPage(run[1].pages[3])
    /\ Len(run[1].ret.jobs) = 5
    /\ run[1].ret.jobs[1].title = "j1" /\ run[1].ret.jobs[5].title = "j6"

TimedOut(rec) == {j \in 1..Len(rec.upstream) : rec.upstream[j].out.kind = "timeout"}

\* what the scorer returns for call j from the outcome of its own race
OwnResult(call, k) ==
    IF call.path = "single" THEN scoreJobMatch(call.out)
    ELSE scoreBatchSingle(Len(call.sent), call.out)[k]

\* C21: a call that lost the race to its timer gave the fallback (score
\* 50, defaulted) for each of its listings and keeps it; its request is
\* not cancelled but stays in flight until its answer arrives; and the
\* arrival of that answer changes no result, of this call or of a later
\* one: every result is the one decided by the race of its own call
C21_TimerWinsRace ==
    /\ [](LET rec == run[1] IN
           /\ Cardinality(TimedOut(rec)) = Len(rec.inflight) + rec.late
           /\ \A x \in 1..Len(rec.inflight) : rec.inflight[x] \in TimedOut(rec)
           /\ \A j \in 1..Len(rec.upstream) : \A k \in 1..Len(rec.upstream[j].sent) :
                 /\ ResultOf(rec, j, k) = OwnResult(rec.upstream[j], k)
                 /\ j \in TimedOut(rec) => IsDefaulted(ResultOf(rec, j, k)))
    /\ [][run'[1].late > run[1].late =>
            /\ run'[1].matchResults = run[1].matchResults
            /\ run'[1].upstream = run[1].upstream
            /\ run'[1].pc = run[1].pc]_vars

\* the first batch timed out, the second was scored, and the answer to
\* the first arrived after the second had returned
C21_Witness ==
    /\ run[1].late = 1
    /\ run[1].pc = "insert"
    /\ Len(run[1].upstream) = 2
    /\ run[1].upstream[1].out.kind = "timeout"
    /\ IsDefaulted(run[1].matchResults[1])
    /\ run[1].matchResults[6].score = Num(73)

\* ---------------------------------------------------------------------------
\* C22 (as stated): when chunking n >= 2 candidates by five leaves a last
\* chunk of exactly one candidate, that candidate is scored by a single-entry
\* call and not by a one-element batch call.
ResidualOne(rec) ==
    /\ Len(rec.acc.candidates) >= 2
    /\ Len(rec.acc.candidates) % BATCH_SIZE = 1
    /\ Len(rec.matchResults) = Len(rec.acc.candidates)
LastCall(rec) == rec.upstream[Len(rec.upstream)]
C22_ResidualUsesSinglePath ==
    ResidualOne(run[1]) => LastCall(run[1]).path = "single"

\* C22 (amended): the single-entry path is taken only when the whole candidate
\* list has one element; a last chunk of one candidate out of n >= 2 is sent
\* as a one-element batch call, and its result is that batch call's reading
\* of the answer.
C22_ResidualUsesBatchPath ==
    LET rec == run[1]
        n == Len(rec.acc.candidates)
    IN  /\ \A k \in 1..Len(rec.upstream) : rec.upstream[k].path = "single" <=> n = 1
        /\ ResidualOne(rec) =>
              /\ LastCall(rec).path = "batch"
              /\ Len(LastCall(rec).sent) = 1
              /\ LastCall(rec).sent[1].url = rec.acc.candidates[n].normalized.url
              /\ rec.matchResults[n] = scoreBatchSingle(1, LastCall(rec).out)[1]
C22_Witness ==
    /\ ResidualOne(run[1])
    /\ Len(run[1].upstream) = 2
    /\ LastCall(run[1]).path = "batch"
    /\ Len(LastCall(run[1]).sent) = 1
\* ---------------------------------------------------------------------------
\* C23: batches are processed one after another: when a batch call is issued
\* every earlier call has delivered its results and the pause after it has
\* been taken, pauses are taken between consecutive batches only, and none is
\* taken after the last batch.
Batches(n) == IF n = 0 THEN 0 ELSE (n + BATCH_SIZE - 1) \div BATCH_SIZE
Rank(phase) == IF phase = "search" THEN 1 ELSE IF phase = "score" THEN 2 ELSE 3
Follows(a, b) ==
    IF a.p = b.p /\ a.phase = b.phase
    THEN b.k > a.k /\ b.of = a.of
    ELSE /\ a.k = a.of
         /\ \/ a.p = b.p /\ Rank(b.phase) = Rank(a.phase) + 1
            \/ b.p = a.p + 1 /\ b.phase = "search" /\ a.phase \in {"search", "insert"}
C24_PhasesOrdered ==
    \A r \in Runs :
        LET t == run[r].trace
        IN  /\ \A j \in 1..(Len(t) - 1) : Follows(t[j], t[j + 1])
            /\ Len(t) > 0 => (t[1].phase = "search" /\ t[1].k = 1)
C24_Witness ==
    \E r \in Runs :
        LET t == run[r].trace
        IN  \E a, b, c, d \in 1..Len(t) :
               /\ a < b /\ b < c /\ c < d
               /\ t[a].phase = "search" /\ t[a].of >= 2 /\ t[a].k = t[a].of
               /\ t[b].phase = "score" /\ t[b].p = t[a].p
               /\ t[c].phase = "insert" /\ t[c].p = t[a].p /\ t[c].of >= 2 /\ t[c].k = t[c].of
               /\ t[d].phase = "search" /\ t[d].p = t[a].p + 1
\* ---------------------------------------------------------------------------
\* C25: each listing returned by a successful query of a profile ends in
\* exactly one of five outcomes, the first rule it violates in the order
\* excluded company fragment (case-insensitive), null url, known url, remote
\* preference "remote" and listing not remote, else accepted; the listings
\* returned are the four skip counters plus the candidates; a preference
\* other than "remote" drops nothing by the fourth rule.
HasExcludedFragment(company, filters) ==
    \E k \in 1..Len(filters.excluded_companies) :
        LET fragment == toLowerCase(filters.excluded_companies[k])
            name == toLowerCase(company)
        IN  \E at \in 0..(Len(name) - Len(fragment)) :
               \A c \in 1..Len(fragment) : name[at + c] = fragment[c]
FirstRule(e, filters, resumeId) ==
    LET n == normalizeJob(e.job, resumeId)
    IN  IF HasExcludedFragment(e.job.company_name, filters) THEN "skippedExcluded"
        ELSE IF n.url = Null THEN "skippedNoUrl"
        ELSE IF e.known THEN "skippedDuplicate"
        ELSE IF filters.remote_preference = "remote" /\ ~n.is_remote THEN "skippedRemote"
        ELSE "accepted"
Ended(a, outcome) == Cardinality({k \in 1..Len(a.decided) : a.decided[k].outcome = outcome})
C25_OneOutcomePerListing ==
    \A r \in Runs :
        LET rec == run[r]
            a == rec.acc
        IN  /\ \A k \in 1..Len(a.decided) :
                  a.decided[k].outcome =
                      FirstRule(a.decided[k], rec.searchFilters, rec.resumes[rec.p].id)
            /\ a.skippedExcluded = Ended(a, "skippedExcluded")
            /\ a.skippedNoUrl = Ended(a, "skippedNoUrl")
            /\ a.skippedDuplicate = Ended(a, "skippedDuplicate")
            /\ a.skippedRemote = Ended(a, "skippedRemote")
            /\ Len(a.candidates) = Ended(a, "accepted")
            /\ rec.serpApiResults = Len(a.decided)
            /\ rec.serpApiResults = a.skippedExcluded + a.skippedNoUrl + a.skippedDuplicate
                                       + a.skippedRemote + Len(a.candidates)
            /\ rec.searchFilters.remote_preference # "remote" => a.skippedRemote = 0
C25_Witness ==
    \E r \in Runs :
        LET a == run[r].acc
        IN  /\ a.skippedExcluded > 0 /\ a.skippedDuplicate > 0
            /\ a.skippedNoUrl > 0 /\ a.skippedRemote > 0
            /\ Len(a.candidates) > 0
\* ---------------------------------------------------------------------------
\* C26: a persist call that does not overlap another one only extends the
\* day's report: what it uploads is the report of that day as it is in the
\* bucket, unchanged, followed by the rule and this run's rendering, or a new
\* dated header followed by them when the bucket has no report of that day;
\* so the sections of the runs persisted one after another on a day stay in
\* the report, in persist order.
Uploads(r) == run[r].pc = "upload" /\ run'[r].pc = "returned" /\ run'[r].uploaded
SectionsOf(content) ==
    SelectSeq(content, LAMBDA piece : piece \in {"S0", "S1", "S2", "S3", "S4", "S5"})
IsPrefix(a, b) == Len(a) <= Len(b) /\ SubSeq(b, 1, Len(a)) = a
C26_PersistExtendsReport ==
    [][\A r \in Runs :
          (Uploads(r) /\ ~run[r].overlapped) =>
              LET path == run[r].filePath
                  before == IF path \in DOMAIN storage THEN storage[path]
                            ELSE Header(run[r].today)
              IN  /\ storage'[path] = before \o <<"---">> \o toMarkdown(run[r].logger)
                  /\ path \in DOMAIN storage =>
                        IsPrefix(SectionsOf(storage[path]), SectionsOf(storage'[path]))]_vars

\* ---------------------------------------------------------------------------
\* C27: pruneOldLogs deletes exactly the reports dated strictly before
\* today minus RETENTION_DAYS, leaves every other object as it is and
\* returns the number deleted; when the listing or the delete call fails it
\* returns 0, and a failed listing deletes nothing.
ExpiredReports(objects, cutoff) ==
    {filePathOf(d) : d \in 0..(cutoff - 1)} \cap DOMAIN objects
PruneReturns(r) == run[r].pc \in {"prune", "remove"} /\ run'[r].pc = "persist"
C27_PruneDeletesExpired ==
    [][\A r \in Runs :
          PruneReturns(r) =>
              IF run'[r].pruneFailed
              THEN run'[r].prunedCount = 0 /\ storage' = storage
              ELSE LET expired == ExpiredReports(storage, run'[r].cutoff)
                   IN  /\ storage' = Without(storage, expired)
                       /\ run'[r].prunedCount = Cardinality(expired)]_vars

\* ---------------------------------------------------------------------------
\* C28: when two callers persist to the same day's report with their
\* downloads and uploads interleaved, and every storage call succeeds, the
\* report holds the sections of both.
Persisted(r) == run[r].pc = "returned" /\ run[r].uploaded /\ ~run[r].downloadFailed
C28_OverlappingPersistsKeepBoth ==
    \A a, b \in Runs :
        (/\ a # b /\ Persisted(a) /\ Persisted(b)
         /\ run[a].overlapped /\ run[b].overlapped
         /\ run[a].filePath = run[b].filePath
         /\ run[a].filePath \in DOMAIN storage)
        => {toMarkdown(run[a].logger)[2], toMarkdown(run[b].logger)[2]}
              \subseteq {storage[run[a].filePath][k] : k \in 1..Len(storage[run[a].filePath])}
\* ---------------------------------------------------------------------------
\* C29: a query of which any page request fails, the first or a later one,
\* adds no candidate, no known url and nothing to the returned-listings
\* counter: the accumulators of the profile are as they were before the query.
LastSearch(rec) == rec.searches[Len(rec.searches)]
PageFailure(e) == e.failedPage >= 1
C29_FailedQueryAllOrNothing ==
    [][\A r \in Runs :
          (/\ Len(run'[r].searches) = Len(run[r].searches) + 1
           /\ PageFailure(LastSearch(run'[r])))
          => /\ run'[r].acc = run[r].acc
             /\ run'[r].serpApiResults = run[r].serpApiResults
             /\ run'[r].reported = run[r].reported
             /\ ~LastSearch(run'[r]).ok]_vars
C29_Witness ==
    \E r \in Runs :
        /\ Len(run[r].searches) > 0
        /\ LastSearch(run[r]).failedPage = 2
        /\ LastSearch(run[r]).requests = 2
        /\ ~LastSearch(run[r]).ok
        /\ LastSearch(run[r]).query[1] = "Engineer"
        /\ run[r].serpApiResults = 0
\* ---------------------------------------------------------------------------
\* C30: every invocation of executeJobSearch that has started eventually
\* returns its counts and run log or throws the profile-load error, whether
\* or not the scoring calls that timed out ever answer.
Finished(r) == run[r].pc \in {"done", "thrown"}
C30_EveryInvocationFinishes ==
    \A r \in Runs : (run[r].pc = "start") ~> Finished(r)
C30_Witness ==
    \E r \in Runs :
        /\ run[r].pc = "done"
        /\ Len(run[r].inflight) > 0
        /\ run[r].result.new_jobs_found > 0
====
